---- MODULE Spec2Model ----
(***************************************************************************)
(* A model of the devin-sse-proxy bridge (src/main.py): the shared         *)
(* ProxyState, the SSE stream consumer read_sse_stream with its block      *)
(* parser, the stdin forwarder forward_stdin, and the orchestrator runner  *)
(* with its stop event and task cancellation, on CPython 3.11 with the     *)
(* json, urllib.parse and ipaddress modules of its library.                *)
(*                                                                         *)
(* Text is modelled as sequences of characters and the chunks of the       *)
(* network as sequences of bytes (see Characters below).  An Optional[str] *)
(* is <<>> (None) or <<s>>.                                                *)
(***************************************************************************)
EXTENDS Integers, Sequences, FiniteSets, TLC

None == <<>>
Some(s) == <<s>>

----------------------------------------------------------------------------
(* Characters.  A character is a string: an ASCII character that TLA+ can  *)
(* write is itself ("a", "\"", "\\", "\t", "\n", "\f", "\r"), every other  *)
(* code point is "u" followed by its hexadecimal number in four to six     *)
(* upper-case digits ("u000B", "u0060", "u00E9", "u1F600").  A byte below  *)
(* 0x80 is the character it encodes, a byte from 0x80 is "x" and two       *)
(* upper-case hexadecimal digits ("xC3").                                  *)

\* The characters U+0020 .. U+007E, in order.
Ascii ==
    <<" ", "!", "\"", "#", "$", "%", "&", "'", "(", ")", "*", "+", ",", "-",
     ".", "/", "0", "1", "2", "3", "4", "5", "6", "7", "8", "9", ":", ";",
     "<", "=", ">", "?", "@", "A", "B", "C", "D", "E", "F", "G", "H", "I",
     "J", "K", "L", "M", "N", "O", "P", "Q", "R", "S", "T", "U", "V", "W",
     "X", "Y", "Z", "[", "\\", "]", "^", "_", "u0060", "a", "b", "c", "d",
     "e", "f", "g", "h", "i", "j", "k", "l", "m", "n", "o", "p", "q", "r",
     "s", "t", "u", "v", "w", "x", "y", "z", "{", "|", "}", "~">>

\* The characters U+0000 .. U+001F, in order.
C0Controls ==
    <<"u0000", "u0001", "u0002", "u0003", "u0004", "u0005", "u0006", "u0007",
     "u0008", "\t", "\n", "u000B", "\f", "\r", "u000E", "u000F", "u0010",
     "u0011", "u0012", "u0013", "u0014", "u0015", "u0016", "u0017", "u0018",
     "u0019", "u001A", "u001B", "u001C", "u001D", "u001E", "u001F">>

\* The bytes 0x80 .. 0xFF, in order.
HighBytes ==
    <<"x80", "x81", "x82", "x83", "x84", "x85", "x86", "x87", "x88", "x89",
     "x8A", "x8B", "x8C", "x8D", "x8E", "x8F", "x90", "x91", "x92", "x93",
     "x94", "x95", "x96", "x97", "x98", "x99", "x9A", "x9B", "x9C", "x9D",
     "x9E", "x9F", "xA0", "xA1", "xA2", "xA3", "xA4", "xA5", "xA6", "xA7",
     "xA8", "xA9", "xAA", "xAB", "xAC", "xAD", "xAE", "xAF", "xB0", "xB1",
     "xB2", "xB3", "xB4", "xB5", "xB6", "xB7", "xB8", "xB9", "xBA", "xBB",
     "xBC", "xBD", "xBE", "xBF", "xC0", "xC1", "xC2", "xC3", "xC4", "xC5",
     "xC6", "xC7", "xC8", "xC9", "xCA", "xCB", "xCC", "xCD", "xCE", "xCF",
     "xD0", "xD1", "xD2", "xD3", "xD4", "xD5", "xD6", "xD7", "xD8", "xD9",
     "xDA", "xDB", "xDC", "xDD", "xDE", "xDF", "xE0", "xE1", "xE2", "xE3",
     "xE4", "xE5", "xE6", "xE7", "xE8", "xE9", "xEA", "xEB", "xEC", "xED",
     "xEE", "xEF", "xF0", "xF1", "xF2", "xF3", "xF4", "xF5", "xF6", "xF7",
     "xF8", "xF9", "xFA", "xFB", "xFC", "xFD", "xFE", "xFF">>

HexUpper ==
    <<"0", "1", "2", "3", "4", "5", "6", "7", "8", "9", "A", "B", "C", "D", "E", "F">>
HexLower ==
    <<"0", "1", "2", "3", "4", "5", "6", "7", "8", "9", "a", "b", "c", "d", "e", "f">>
HexDigit(n) == HexUpper[(n % 16) + 1]

Range(s) == {s[i] : i \in 1..Len(s)}
HighByteSet == Range(HighBytes)

\* The index of x in the sequence s, 0 when it is not in it.
Position(s, x) ==
    IF x \in Range(s) THEN CHOOSE i \in 1..Len(s) : s[i] = x ELSE 0

\* chr(n)
CharOf(n) ==
    IF n < 32 THEN C0Controls[n + 1]
    ELSE IF n < 127 THEN Ascii[n - 31]
    ELSE IF n < 65536
         THEN "u" \o HexDigit(n \div 4096) \o HexDigit(n \div 256)
                  \o HexDigit(n \div 16) \o HexDigit(n)
    ELSE IF n < 1048576
         THEN "u" \o HexDigit(n \div 65536) \o HexDigit(n \div 4096)
                  \o HexDigit(n \div 256) \o HexDigit(n \div 16) \o HexDigit(n)
    ELSE "u" \o HexDigit(n \div 1048576) \o HexDigit(n \div 65536)
             \o HexDigit(n \div 4096) \o HexDigit(n \div 256)
             \o HexDigit(n \div 16) \o HexDigit(n)

\* The value of a byte.
ByteValue(b) ==
    IF b \in HighByteSet THEN 127 + Position(HighBytes, b)
    ELSE IF b \in Range(C0Controls) THEN Position(C0Controls, b) - 1
    ELSE IF b = "u007F" THEN 127
    ELSE 31 + Position(Ascii, b)

----------------------------------------------------------------------------
(* Text helpers: str.strip, str.lstrip, str.startswith, str.split,        *)
(* str.replace and bytes.decode as main.py uses them.                     *)

\* Characters removed by str.strip() and str.lstrip() with no argument:
\* those for which str.isspace() is true.
Whitespace ==
    {"\t", "\n", "u000B", "\f", "\r", "u001C", "u001D", "u001E", "u001F",
     " ", "u0085", "u00A0", "u1680", "u2000", "u2001", "u2002", "u2003",
     "u2004", "u2005", "u2006", "u2007", "u2008", "u2009", "u200A", "u2028",
     "u2029", "u202F", "u205F", "u3000"}

LeadByte == "xC3"
ContByte == "xA9"
EAcute == "u00E9"

Drop(s, k) == SubSeq(s, k + 1, Len(s))

StartsWith(s, p) == Len(s) >= Len(p) /\ SubSeq(s, 1, Len(p)) = p

RECURSIVE LStrip(_)
LStrip(s) ==
    IF s # <<>> /\ s[1] \in Whitespace THEN LStrip(Tail(s)) ELSE s

RECURSIVE RStrip(_)
RStrip(s) ==
    IF s # <<>> /\ s[Len(s)] \in Whitespace
    THEN RStrip(SubSeq(s, 1, Len(s) - 1))
    ELSE s

Strip(s) == RStrip(LStrip(s))

\* The UTF-8 decoder of bytes.decode: what it finds at the head of b, whose
\* first byte has value v.  [take, cp]: the number of bytes used and the code
\* point they encode, or cp = -1 for bytes that are no character.  A sequence
\* cut off by the end of the bytes is invalid to its end; an invalid
\* sequence is invalid up to the byte that breaks it.
IsCont(b, k) == k <= Len(b) /\ ByteValue(b[k]) \in 128..191
ContBits(b, k) == ByteValue(b[k]) - 128
Utf8Two(b, v) ==
    IF v < 194 THEN [take |-> 1, cp |-> -1]
    ELSE IF Len(b) < 2 THEN [take |-> Len(b), cp |-> -1]
    ELSE IF ~IsCont(b, 2) THEN [take |-> 1, cp |-> -1]
    ELSE [take |-> 2, cp |-> (v - 192) * 64 + ContBits(b, 2)]
\* The second byte of a three-byte sequence: E0 needs A0..BF, ED needs 80..9F.
SecondOfThree(b, v) ==
    /\ IsCont(b, 2)
    /\ v = 224 => ByteValue(b[2]) >= 160
    /\ v = 237 => ByteValue(b[2]) < 160
Utf8Three(b, v) ==
    IF Len(b) < 2 THEN [take |-> Len(b), cp |-> -1]
    ELSE IF ~SecondOfThree(b, v) THEN [take |-> 1, cp |-> -1]
    ELSE IF Len(b) < 3 THEN [take |-> Len(b), cp |-> -1]
    ELSE IF ~IsCont(b, 3) THEN [take |-> 2, cp |-> -1]
    ELSE [take |-> 3,
          cp |-> (v - 224) * 4096 + ContBits(b, 2) * 64 + ContBits(b, 3)]
\* The second byte of a four-byte sequence: F0 needs 90..BF, F4 needs 80..8F.
SecondOfFour(b, v) ==
    /\ IsCont(b, 2)
    /\ v = 240 => ByteValue(b[2]) >= 144
    /\ v = 244 => ByteValue(b[2]) < 144
Utf8Four(b, v) ==
    IF Len(b) < 2 THEN [take |-> Len(b), cp |-> -1]
    ELSE IF ~SecondOfFour(b, v) THEN [take |-> 1, cp |-> -1]
    ELSE IF Len(b) < 3 THEN [take |-> Len(b), cp |-> -1]
    ELSE IF ~IsCont(b, 3) THEN [take |-> 2, cp |-> -1]
    ELSE IF Len(b) < 4 THEN [take |-> Len(b), cp |-> -1]
    ELSE IF ~IsCont(b, 4) THEN [take |-> 3, cp |-> -1]
    ELSE [take |-> 4,
          cp |-> (v - 240) * 262144 + ContBits(b, 2) * 4096
                 + ContBits(b, 3) * 64 + ContBits(b, 4)]
Utf8Head(b, v) ==
    IF v < 128 THEN [take |-> 1, cp |-> v]
    ELSE IF v < 224 THEN Utf8Two(b, v)
    ELSE IF v < 240 THEN Utf8Three(b, v)
    ELSE IF v < 245 THEN Utf8Four(b, v)
    ELSE [take |-> 1, cp |-> -1]

\* chunk.decode("utf-8", errors="ignore"): each chunk is decoded on its own,
\* and the bytes that are no character are dropped; so are a lead byte
\* without its continuation bytes in the same chunk and a continuation byte
\* without its lead byte.
RECURSIVE Utf8DecodeIgnore(_)
Utf8Decoded(b, h) ==
    (IF h.cp < 0 THEN <<>> ELSE <<CharOf(h.cp)>>) \o Utf8DecodeIgnore(Drop(b, h.take))
Utf8DecodeIgnore(b) ==
    IF b = <<>> THEN <<>>
    ELSE IF b[1] \notin HighByteSet
         THEN <<b[1]>> \o Utf8DecodeIgnore(Tail(b))
    ELSE Utf8Decoded(b, Utf8Head(b, ByteValue(b[1])))

\* buffer.replace("\r\n", "\n"): one left-to-right pass.
RECURSIVE ReplaceCRLF(_)
ReplaceCRLF(s) ==
    IF s = <<>> THEN <<>>
    ELSE IF Len(s) >= 2 /\ s[1] = "\r" /\ s[2] = "\n"
         THEN <<"\n">> \o ReplaceCRLF(Drop(s, 2))
    ELSE <<s[1]>> \o ReplaceCRLF(Tail(s))

\* Index of the first "\n\n" in s, 0 when there is none ("\n\n" in buffer).
RECURSIVE FindBlankLine(_, _)
FindBlankLine(s, i) ==
    IF i + 1 > Len(s) THEN 0
    ELSE IF s[i] = "\n" /\ s[i + 1] = "\n" THEN i
    ELSE FindBlankLine(s, i + 1)

\* block.split("\n")
RECURSIVE SplitLines(_, _)
SplitLines(s, cur) ==
    IF s = <<>> THEN <<cur>>
    ELSE IF s[1] = "\n" THEN <<cur>> \o SplitLines(Tail(s), <<>>)
    ELSE SplitLines(Tail(s), Append(cur, s[1]))

\* "\n".join(lines)
RECURSIVE JoinLines(_)
JoinLines(ls) ==
    IF ls = <<>> THEN <<>>
    ELSE IF Len(ls) = 1 THEN ls[1]
    ELSE ls[1] \o <<"\n">> \o JoinLines(Tail(ls))

----------------------------------------------------------------------------
(* json.loads as CPython runs it: json/__init__.py loads, json/decoder.py  *)
(* JSONDecoder.decode and raw_decode, and the scanner of Modules/_json.c.  *)
(* A parse returns [ok, n, v, err]: whether a value was read at index i,   *)
(* the index after it, the value, and for a failure the exception raised.  *)
(* A value is [t |-> "str", s |-> text], [t |-> "num", s |-> literal],     *)
(* [t |-> "lit", s |-> word], [t |-> "arr", items |-> values] or           *)
(* [t |-> "obj", members |-> pairs].                                       *)

Digits == {"0", "1", "2", "3", "4", "5", "6", "7", "8", "9"}

\* _json.c IS_WHITESPACE and decoder.py WHITESPACE.
JsonWhitespace == {" ", "\t", "\n", "\r"}

\* Characters json rejects unescaped inside a string (strict mode): c <= 0x1f.
ControlChars == Range(C0Controls)

\* sys.getrecursionlimit() less the frames in use where main.py calls
\* json.loads: the number of arrays and objects that may be open at once in
\* a line of standard input, in the data of a message event and in the data
\* of an endpoint event (one frame deeper, inside handle_endpoint_event).
StdinJsonDepth == 985
MessageJsonDepth == 985
EndpointJsonDepth == 984

\* sys.get_int_max_str_digits()
MaxStrDigits == 4300

At(s, i) == IF 1 <= i /\ i <= Len(s) THEN s[i] ELSE ""

JsonRaise(kind) == [ok |-> FALSE, n |-> 0, v |-> [t |-> "none"], err |-> kind]
JsonFail == JsonRaise("JSONDecodeError")
\* The StopIteration of the scanner where no value starts.
JsonStop == JsonRaise("StopIteration")
JsonOk(n, v) == [ok |-> TRUE, n |-> n, v |-> v, err |-> ""]

\* The least member of a set of indices.
First(S) == CHOOSE k \in S : \A j \in S : k <= j

\* The index of the first character of s at or after i that is not in the
\* set cs, Len(s) + 1 when there is none.
Skip(s, i, cs) == First({k \in i..Len(s) : s[k] \notin cs} \cup {Len(s) + 1})

SkipWs(s, i) == Skip(s, i, JsonWhitespace)

SkipDigits(s, i) == Skip(s, i, Digits)

\* The value of a hexadecimal digit, -1 for any other character.
HexValue(c) ==
    IF c \in Range(HexUpper) THEN Position(HexUpper, c) - 1
    ELSE IF c \in Range(HexLower) THEN Position(HexLower, c) - 1
    ELSE -1
\* The four hexadecimal digits of s from index k, -1 when one is none.
Hex4(s, k) ==
    IF \E d \in 0..3 : HexValue(At(s, k + d)) < 0 THEN -1
    ELSE HexValue(s[k]) * 4096 + HexValue(s[k + 1]) * 256
         + HexValue(s[k + 2]) * 16 + HexValue(s[k + 3])

\* The character a backslash escape other than \u stands for, "" for none.
Unescape(c) ==
    CASE c = "\"" -> "\""
      [] c = "\\" -> "\\"
      [] c = "/" -> "/"
      [] c = "b" -> CharOf(8)
      [] c = "f" -> "\f"
      [] c = "n" -> "\n"
      [] c = "r" -> "\r"
      [] c = "t" -> "\t"
      [] OTHER -> ""

IsHighSurrogate(c) == 55296 <= c /\ c <= 56319
IsLowSurrogate(c) == 56320 <= c /\ c <= 57343
JoinSurrogates(c, c2) == 65536 + (c - 55296) * 1024 + (c2 - 56320)

\* _json.c raise_errmsg with d arrays and objects still to open: it calls
\* JSONDecodeError(msg, doc, pos), whose construction is three calls deep
\* and raises RecursionError instead where fewer are left.
JsonError(d) == IF d < 3 THEN JsonRaise("RecursionError") ELSE JsonFail

\* _json.c scanstring_unicode: the body of a string literal from index j
\* (after the opening quote), acc the characters read so far.
RECURSIVE ScanString(_, _, _, _)
\* A high surrogate c whose four digits end before index e, followed by \u:
\* the next escape c2 is joined to it when it is a low surrogate, and read
\* again as an escape of its own when it is not.
ScanPair(s, e, acc, d, c, c2) ==
    IF c2 < 0 THEN JsonError(d)
    ELSE IF IsLowSurrogate(c2)
         THEN ScanString(s, e + 6, Append(acc, CharOf(JoinSurrogates(c, c2))), d)
    ELSE ScanString(s, e, Append(acc, CharOf(c)), d)
\* \u and four digits from index k; e is the index after them.
ScanUnicode(s, k, e, acc, d, c) ==
    IF e > Len(s) THEN JsonError(d)
    ELSE IF c < 0 THEN JsonError(d)
    ELSE IF IsHighSurrogate(c) /\ e + 6 <= Len(s)
            /\ s[e] = "\\" /\ s[e + 1] = "u"
         THEN ScanPair(s, e, acc, d, c, Hex4(s, e + 2))
    ELSE ScanString(s, e, Append(acc, CharOf(c)), d)
\* The escape whose character after the backslash is at index k.
ScanEscape(s, k, acc, d) ==
    IF k > Len(s) THEN JsonError(d)
    ELSE IF s[k] = "u" THEN ScanUnicode(s, k + 1, k + 5, acc, d, Hex4(s, k + 1))
    ELSE IF Unescape(s[k]) = "" THEN JsonError(d)
    ELSE ScanString(s, k + 1, Append(acc, Unescape(s[k])), d)
\* The characters from index j up to index e, the first that is a quote, a
\* backslash or a control character.
ScanChunk(s, j, e, acc, d) ==
    IF e > Len(s) THEN JsonError(d)
    ELSE IF s[e] = "\"" THEN JsonOk(e + 1, [t |-> "str", s |-> acc \o SubSeq(s, j, e - 1)])
    ELSE IF s[e] = "\\" THEN ScanEscape(s, e + 1, acc \o SubSeq(s, j, e - 1), d)
    ELSE JsonError(d)
ScanString(s, j, acc, d) ==
    ScanChunk(s, j, First({k \in j..Len(s) : s[k] \in ControlChars \cup {"\"", "\\"}}
                          \cup {Len(s) + 1}), acc, d)

JsonLiterals ==
    { <<"n", "u", "l", "l">>, <<"t", "r", "u", "e">>, <<"f", "a", "l", "s", "e">> }

JsonConstants ==
    { <<"N", "a", "N">>, <<"I", "n", "f", "i", "n", "i", "t", "y">>,
      <<"-", "I", "n", "f", "i", "n", "i", "t", "y">> }

\* _json.c _match_number_unicode: -?(0|[1-9]\d*)(\.\d+)?([eE][-+]?\d+)?
\* Each operator takes the index its part starts at and gives the index
\* after it (0 where the integer part is missing).
NumberInt(s, a) ==
    IF At(s, a) = "0" THEN a + 1
    ELSE IF At(s, a) \in Digits THEN SkipDigits(s, a) ELSE 0
NumberFrac(s, b) ==
    IF b # 0 /\ At(s, b) = "." /\ At(s, b + 1) \in Digits
    THEN SkipDigits(s, b + 1) ELSE b
NumberExpDigits(s, c, d) == IF At(s, d) \in Digits THEN SkipDigits(s, d) ELSE c
NumberExp(s, c) ==
    IF c # 0 /\ At(s, c) \in {"e", "E"}
    THEN NumberExpDigits(s, c, IF At(s, c + 1) \in {"-", "+"} THEN c + 2 ELSE c + 1)
    ELSE c
\* A literal with a fraction or an exponent is a float, any other an int.
IsFloatText(t) == \E k \in 1..Len(t) : t[k] \in {".", "e", "E"}
\* int() refuses a literal of more than MaxStrDigits digits with ValueError.
IntDigits(t) == IF t[1] = "-" THEN Len(t) - 1 ELSE Len(t)
NumberValue(t, n) ==
    IF ~IsFloatText(t) /\ IntDigits(t) > MaxStrDigits THEN JsonRaise("ValueError")
    ELSE JsonOk(n, [t |-> "num", s |-> t])
NumberResult(s, i, e) ==
    IF e = 0 THEN JsonStop ELSE NumberValue(SubSeq(s, i, e - 1), e)
ScanNumber(s, i) ==
    NumberResult(s, i, NumberExp(s, NumberFrac(s,
                          NumberInt(s, IF At(s, i) = "-" THEN i + 1 ELSE i))))

\* _json.c scan_once_unicode for a value that is no string, array or
\* object: null, true, false, NaN, Infinity, -Infinity, or else a number.
\* The three constants are looked up by a call of parse_constant, which
\* raises RecursionError when no call is left.
WordResult(s, i, hit, d) ==
    IF hit = {} THEN ScanNumber(s, i)
    ELSE IF hit \subseteq JsonConstants /\ d = 0 THEN JsonRaise("RecursionError")
    ELSE JsonOk(i + Len(CHOOSE x \in hit : TRUE),
                [t |-> "lit", s |-> CHOOSE x \in hit : TRUE])
WordAt(s, i, w) == i + Len(w) - 1 <= Len(s) /\ SubSeq(s, i, i + Len(w) - 1) = w
ScanAtom(s, i, d) ==
    WordResult(s, i, {w \in JsonLiterals \cup JsonConstants : WordAt(s, i, w)}, d)

\* d is the number of arrays and objects that may still be opened.
RECURSIVE ParseValue(_, _, _)
RECURSIVE ParseItems(_, _, _, _)
RECURSIVE ParseMembers(_, _, _, _)

\* _json.c _parse_array_unicode: after an item r, at index j behind it.
ItemsNext(s, j, items, d) ==
    IF At(s, j) = "]" THEN JsonOk(j + 1, [t |-> "arr", items |-> items])
    ELSE IF At(s, j) = "," THEN ParseItems(s, SkipWs(s, j + 1), items, d)
    ELSE JsonError(d)
ItemsAfterValue(s, r, acc, d) ==
    IF ~r.ok THEN r ELSE ItemsNext(s, SkipWs(s, r.n), Append(acc, r.v), d)

\* _json.c _parse_object_unicode: after a key k, the colon, the value r.
MembersNext(s, m, members, d) ==
    IF At(s, m) = "}" THEN JsonOk(m + 1, [t |-> "obj", members |-> members])
    ELSE IF At(s, m) = "," THEN ParseMembers(s, SkipWs(s, m + 1), members, d)
    ELSE JsonError(d)
MembersAfterValue(s, key, r, acc, d) ==
    IF ~r.ok THEN r
    ELSE MembersNext(s, SkipWs(s, r.n), Append(acc, [k |-> key, v |-> r.v]), d)
MembersAfterColon(s, key, j, acc, d) ==
    IF At(s, j) # ":" THEN JsonError(d)
    ELSE MembersAfterValue(s, key, ParseValue(s, SkipWs(s, j + 1), d), acc, d)
MembersAfterKey(s, k, acc, d) ==
    IF ~k.ok THEN k ELSE MembersAfterColon(s, k.v.s, SkipWs(s, k.n), acc, d)

ObjectBody(s, j, d) ==
    IF At(s, j) = "}" THEN JsonOk(j + 1, [t |-> "obj", members |-> <<>>])
    ELSE ParseMembers(s, j, <<>>, d)
ArrayBody(s, j, d) ==
    IF At(s, j) = "]" THEN JsonOk(j + 1, [t |-> "arr", items |-> <<>>])
    ELSE ParseItems(s, j, <<>>, d)

\* _json.c scan_once_unicode: the value starting at index i.  Opening an
\* array or an object enters a recursive call (Py_EnterRecursiveCall), which
\* raises RecursionError when none is left.
ParseValue(s, i, d) ==
    IF At(s, i) = "\"" THEN ScanString(s, i + 1, <<>>, d)
    ELSE IF At(s, i) \in {"{", "["} /\ d = 0 THEN JsonRaise("RecursionError")
    ELSE IF At(s, i) = "{" THEN ObjectBody(s, SkipWs(s, i + 1), d - 1)
    ELSE IF At(s, i) = "[" THEN ArrayBody(s, SkipWs(s, i + 1), d - 1)
    ELSE ScanAtom(s, i, d)

\* The items of an array, i at the start of an item.
ParseItems(s, i, acc, d) == ItemsAfterValue(s, ParseValue(s, i, d), acc, d)

\* The members of an object, i at the start of a key.
ParseMembers(s, i, acc, d) ==
    IF At(s, i) # "\"" THEN JsonError(d)
    ELSE MembersAfterKey(s, ScanString(s, i + 1, <<>>, d), acc, d)

\* decoder.py raw_decode: the StopIteration of the scanner becomes a
\* JSONDecodeError, whose construction in Python is two calls deep.
raw_decode(r, depth) ==
    IF ~r.ok /\ r.err = "StopIteration"
    THEN IF depth < 2 THEN JsonRaise("RecursionError") ELSE JsonFail
    ELSE r

\* decoder.py decode: the value, then nothing but whitespace; one frame
\* above raw_decode.
decode(s, r, depth) ==
    IF r.ok /\ SkipWs(s, r.n) # Len(s) + 1
    THEN IF depth < 1 THEN JsonRaise("RecursionError") ELSE JsonFail
    ELSE r

\* json.loads(s) where depth arrays and objects may be open at once:
\* r.ok and the value r.v, or the exception r.err.
JsonLoads(s, depth) ==
    IF StartsWith(s, <<"uFEFF">>) THEN JsonFail
    ELSE decode(s, raw_decode(ParseValue(s, SkipWs(s, 1), depth), depth), depth)

----------------------------------------------------------------------------
(* The SSE block parser and the endpoint decoder.                          *)

EventPrefix == <<"e", "v", "e", "n", "t", ":">>
IdPrefix == <<"i", "d", ":">>
DataPrefix == <<"d", "a", "t", "a", ":">>
EndpointName == <<"e", "n", "d", "p", "o", "i", "n", "t">>
PingName == <<"p", "i", "n", "g">>

\* One pass of the for loop of parse_sse_block over a line.
ParseLine(acc, line) ==
    IF line = <<>> THEN acc
    ELSE IF StartsWith(line, <<":">>) THEN acc
    ELSE IF StartsWith(line, EventPrefix)
         THEN [acc EXCEPT !.event = Some(LStrip(Drop(line, 6)))]
    ELSE IF StartsWith(line, IdPrefix)
         THEN [acc EXCEPT !.event_id = Some(LStrip(Drop(line, 3)))]
    ELSE IF StartsWith(line, DataPrefix)
         THEN [acc EXCEPT !.data_lines = Append(@, LStrip(Drop(line, 5)))]
    ELSE acc

RECURSIVE ParseLines(_, _)
ParseLines(acc, lines) ==
    IF lines = <<>> THEN acc
    ELSE ParseLines(ParseLine(acc, lines[1]), Tail(lines))

\* Lines 278-281 of parse_sse_block, for the fields the loop collected.
MakeEvent(acc) ==
    IF acc.data_lines = <<>> /\ acc.event = None /\ acc.event_id = None
    THEN None
    ELSE Some([event |-> acc.event,
               data |-> IF acc.data_lines # <<>> THEN Some(JoinLines(acc.data_lines))
                        ELSE None,
               event_id |-> acc.event_id])

\* parse_sse_block(block): None, or Some of an SSEEvent [event, data, event_id].
parse_sse_block(block) ==
    IF block = <<>> THEN None
    ELSE MakeEvent(ParseLines([event |-> None, event_id |-> None, data_lines |-> <<>>],
                              SplitLines(block, <<>>)))


\* 2^-1075 is 0.d1 d2 ... d752 * 10^-323 for these digits d (those of
\* 5^1075): a float literal of that magnitude or less is read as 0.0, a
\* greater one as a float that is not zero (round to nearest, ties to even).
HalfMinDenormal ==
    <<"2", "4", "7", "0", "3", "2", "8", "2", "2", "9", "2", "0", "6", "2",
     "3", "2", "7", "2", "0", "8", "8", "2", "8", "4", "3", "9", "6", "4",
     "3", "4", "1", "1", "0", "6", "8", "6", "1", "8", "2", "5", "2", "9",
     "9", "0", "1", "3", "0", "7", "1", "6", "2", "3", "8", "2", "2", "1",
     "2", "7", "9", "2", "8", "4", "1", "2", "5", "0", "3", "3", "7", "7",
     "5", "3", "6", "3", "5", "1", "0", "4", "3", "7", "5", "9", "3", "2",
     "6", "4", "9", "9", "1", "8", "1", "8", "0", "8", "1", "7", "9", "9",
     "6", "1", "8", "9", "8", "9", "8", "2", "8", "2", "3", "4", "7", "7",
     "2", "2", "8", "5", "8", "8", "6", "5", "4", "6", "3", "3", "2", "8",
     "3", "5", "5", "1", "7", "7", "9", "6", "9", "8", "9", "8", "1", "9",
     "9", "3", "8", "7", "3", "9", "8", "0", "0", "5", "3", "9", "0", "9",
     "3", "9", "0", "6", "3", "1", "5", "0", "3", "5", "6", "5", "9", "5",
     "1", "5", "5", "7", "0", "2", "2", "6", "3", "9", "2", "2", "9", "0",
     "8", "5", "8", "3", "9", "2", "4", "4", "9", "1", "0", "5", "1", "8",
     "4", "4", "3", "5", "9", "3", "1", "8", "0", "2", "8", "4", "9", "9",
     "3", "6", "5", "3", "6", "1", "5", "2", "5", "0", "0", "3", "1", "9",
     "3", "7", "0", "4", "5", "7", "6", "7", "8", "2", "4", "9", "2", "1",
     "9", "3", "6", "5", "6", "2", "3", "6", "6", "9", "8", "6", "3", "6",
     "5", "8", "4", "8", "0", "7", "5", "7", "0", "0", "1", "5", "8", "5",
     "7", "6", "9", "2", "6", "9", "9", "0", "3", "7", "0", "6", "3", "1",
     "1", "9", "2", "8", "2", "7", "9", "5", "5", "8", "5", "5", "1", "3",
     "3", "2", "9", "2", "7", "8", "3", "4", "3", "3", "8", "4", "0", "9",
     "3", "5", "1", "9", "7", "8", "0", "1", "5", "5", "3", "1", "2", "4",
     "6", "5", "9", "7", "2", "6", "3", "5", "7", "9", "5", "7", "4", "6",
     "2", "2", "7", "6", "6", "4", "6", "5", "2", "7", "2", "8", "2", "7",
     "2", "2", "0", "0", "5", "6", "3", "7", "4", "0", "0", "6", "4", "8",
     "5", "4", "9", "9", "9", "7", "7", "0", "9", "6", "5", "9", "9", "4",
     "7", "0", "4", "5", "4", "0", "2", "0", "8", "2", "8", "1", "6", "6",
     "2", "2", "6", "2", "3", "7", "8", "5", "7", "3", "9", "3", "4", "5",
     "0", "7", "3", "6", "3", "3", "9", "0", "0", "7", "9", "6", "7", "7",
     "6", "1", "9", "3", "0", "5", "7", "7", "5", "0", "6", "7", "4", "0",
     "1", "7", "6", "3", "2", "4", "6", "7", "3", "6", "0", "0", "9", "6",
     "8", "9", "5", "1", "3", "4", "0", "5", "3", "5", "5", "3", "7", "4",
     "5", "8", "5", "1", "6", "6", "6", "1", "1", "3", "4", "2", "2", "3",
     "7", "6", "6", "6", "7", "8", "6", "0", "4", "1", "6", "2", "1", "5",
     "9", "6", "8", "0", "4", "6", "1", "9", "1", "4", "4", "6", "7", "2",
     "9", "1", "8", "4", "0", "3", "0", "0", "5", "3", "0", "0", "5", "7",
     "5", "3", "0", "8", "4", "9", "0", "4", "8", "7", "6", "5", "3", "9",
     "1", "7", "1", "1", "3", "8", "6", "5", "9", "1", "6", "4", "6", "2",
     "3", "9", "5", "2", "4", "9", "1", "2", "6", "2", "3", "6", "5", "3",
     "8", "8", "1", "8", "7", "9", "6", "3", "6", "2", "3", "9", "3", "7",
     "3", "2", "8", "0", "4", "2", "3", "8", "9", "1", "0", "1", "8", "6",
     "7", "2", "3", "4", "8", "4", "9", "7", "6", "6", "8", "2", "3", "5",
     "0", "8", "9", "8", "6", "3", "3", "8", "8", "5", "8", "7", "9", "2",
     "5", "6", "2", "8", "3", "0", "2", "7", "5", "5", "9", "9", "5", "6",
     "5", "7", "5", "2", "4", "4", "5", "5", "5", "0", "7", "2", "5", "5",
     "1", "8", "9", "3", "1", "3", "6", "9", "0", "8", "3", "6", "2", "5",
     "4", "7", "7", "9", "1", "8", "6", "9", "4", "8", "6", "6", "7", "9",
     "9", "4", "9", "6", "8", "3", "2", "4", "0", "4", "9", "7", "0", "5",
     "8", "2", "1", "0", "2", "8", "5", "1", "3", "1", "8", "5", "4", "5",
     "1", "3", "9", "6", "2", "1", "3", "8", "3", "7", "7", "2", "2", "8",
     "2", "6", "1", "4", "5", "4", "3", "7", "6", "9", "3", "4", "1", "2",
     "5", "3", "2", "0", "9", "8", "5", "9", "1", "3", "2", "7", "6", "6",
     "7", "2", "3", "6", "3", "2", "8", "1", "2", "5">>

\* The digits of the integer part and the fraction of a number literal.
IsMantissaDigit(t, k) ==
    t[k] \in Digits /\ \A j \in 1..k : t[j] \notin {"e", "E"}
RECURSIVE Mantissa(_, _)
Mantissa(t, k) ==
    IF k > Len(t) \/ t[k] \in {"e", "E"} THEN <<>>
    ELSE IF t[k] \in Digits THEN <<t[k]>> \o Mantissa(t, k + 1)
    ELSE Mantissa(t, k + 1)
\* The number of digits of its integer part.
IntPartLen(t) == Cardinality({k \in 1..Len(t) : IsMantissaDigit(t, k)
                                   /\ \A j \in 1..k : t[j] # "."})
RECURSIVE LeadingZeros(_)
LeadingZeros(m) ==
    IF m # <<>> /\ m[1] = "0" THEN 1 + LeadingZeros(Tail(m)) ELSE 0
RECURSIVE DigitsValue(_, _)
DigitsValue(ds, acc) ==
    IF ds = <<>> THEN acc
    ELSE DigitsValue(Tail(ds), acc * 10 + Position(HexUpper, ds[1]) - 1)
\* Its exponent: [neg, ds] the sign and the digits without leading zeros.
ExponentOf(t, e) ==
    IF e = 0 THEN [neg |-> FALSE, ds |-> <<>>]
    ELSE [neg |-> At(t, e + 1) = "-",
          ds |-> Drop(SelectSeq(Drop(t, e), LAMBDA c : c \in Digits),
                      LeadingZeros(SelectSeq(Drop(t, e), LAMBDA c : c \in Digits)))]
\* a <= b for digit strings read as fractions 0.a and 0.b, from index k.
RECURSIVE FractionLeq(_, _, _)
FractionLeq(a, b, k) ==
    IF k > Len(a) /\ k > Len(b) THEN TRUE
    ELSE IF (IF k > Len(a) THEN "0" ELSE a[k]) = (IF k > Len(b) THEN "0" ELSE b[k])
         THEN FractionLeq(a, b, k + 1)
    ELSE Position(HexUpper, IF k > Len(a) THEN "0" ELSE a[k])
           < Position(HexUpper, IF k > Len(b) THEN "0" ELSE b[k])
\* A float 0.m * 10^p, m starting with a digit that is not 0, is read as 0.0.
Underflows(m, p) ==
    p < -323 \/ (p = -323 /\ FractionLeq(m, HalfMinDenormal, 1))
\* bool(float(t)) for the mantissa m with z leading zeros, i digits before
\* the point and the exponent x.  An exponent of ten digits or more decides
\* by its sign.
FloatTruthy(m, z, i, x) ==
    IF z = Len(m) THEN FALSE
    ELSE IF Len(x.ds) > 9 THEN ~x.neg
    ELSE ~Underflows(Drop(m, z),
                     i - z + (IF x.neg THEN 0 - DigitsValue(x.ds, 0)
                              ELSE DigitsValue(x.ds, 0)))
ExponentIndex(t) ==
    IF \E k \in 1..Len(t) : t[k] \in {"e", "E"}
    THEN CHOOSE k \in 1..Len(t) : t[k] \in {"e", "E"} ELSE 0
\* bool(x) of the int or float a number literal is read as.
NumberTruthy(t) ==
    IF IsFloatText(t)
    THEN FloatTruthy(Mantissa(t, 1), LeadingZeros(Mantissa(t, 1)), IntPartLen(t),
                     ExponentOf(t, ExponentIndex(t)))
    ELSE \E k \in 1..Len(t) : t[k] \in Digits \ {"0"}

\* Python truth value of a decoded JSON value.
Truthy(v) ==
    CASE v.t = "str" -> v.s # <<>>
      [] v.t = "num" -> NumberTruthy(v.s)
      [] v.t = "lit" -> v.s \notin { <<"n", "u", "l", "l">>, <<"f", "a", "l", "s", "e">> }
      [] v.t = "arr" -> v.items # <<>>
      [] v.t = "obj" -> v.members # <<>>
      [] OTHER -> FALSE

PyNone == [t |-> "lit", s |-> <<"n", "u", "l", "l">>]

\* dict.get(key): the value of the last member with that key, else None.
DictGet(members, key) ==
    LET hits == {i \in 1..Len(members) : members[i].k = key}
    IN  IF hits = {} THEN PyNone
        ELSE members[CHOOSE i \in hits : \A j \in hits : j <= i].v

\* Fault: the url key is looked at before the endpoint key.
Or3UrlFirst(a, b, c) == IF Truthy(b) THEN b ELSE IF Truthy(a) THEN a ELSE c

\* a or b or c
Or3(a, b, c) == IF Truthy(a) THEN a ELSE IF Truthy(b) THEN b ELSE c

\* Lines 131-143: the endpoint_value for raw and the outcome of
\* json.loads(raw); [t |-> "raised"] when json.loads raises an exception
\* that is no JSONDecodeError, which handle_endpoint_event does not catch.
DecodeEndpoint(raw, parsed) ==
    IF ~parsed.ok /\ parsed.err # "JSONDecodeError" THEN [t |-> "raised"]
    ELSE IF ~parsed.ok THEN [t |-> "str", s |-> raw]
    ELSE IF parsed.v.t = "str" THEN parsed.v
    ELSE IF parsed.v.t = "obj"
         THEN Or3(DictGet(parsed.v.members, EndpointName),
                  DictGet(parsed.v.members, <<"u", "r", "l">>),
                  DictGet(parsed.v.members, <<"p", "a", "t", "h">>))
    ELSE PyNone

\* The endpoint_value of handle_endpoint_event for the stripped, non-empty raw.
EndpointValue(raw) == DecodeEndpoint(raw, JsonLoads(raw, EndpointJsonDepth))

----------------------------------------------------------------------------
(* urllib.parse.urljoin with the functions it calls: urlparse, urlsplit,   *)
(* urlunparse and urlunsplit, and ipaddress.ip_address for a host in       *)
(* brackets.  The parts of a URL are a record [ok, scheme, netloc, path,   *)
(* params, query, fragment]; ok is FALSE where urlsplit raises ValueError. *)

\* Index of the first occurrence of character c in s at or after i, 0 if none.
IndexOf(s, c, i) ==
    IF \E k \in i..Len(s) : s[k] = c THEN First({k \in i..Len(s) : s[k] = c}) ELSE 0

\* Index of the last "/" of s at or before i, 0 if none.
LastSlash(s, i) == CHOOSE k \in 0..i : (k = 0 \/ s[k] = "/") /\ \A j \in (k + 1)..i : s[j] # "/"

\* s.split(c): part n lies between separators n - 1 and n, the ends of s
\* counting as separators.
SeparatorAt(s, c, n) ==
    IF n = 0 THEN 0
    ELSE First({k \in 1..Len(s) : s[k] = c /\ Cardinality({j \in 1..k : s[j] = c}) = n}
               \cup {Len(s) + 1})
SplitOn(s, c) ==
    [n \in 1..(Cardinality({k \in 1..Len(s) : s[k] = c}) + 1) |->
        SubSeq(s, SeparatorAt(s, c, n - 1) + 1, SeparatorAt(s, c, n) - 1)]

\* c.join(parts)
RECURSIVE JoinOn(_, _)
JoinOn(parts, c) ==
    IF parts = <<>> THEN <<>>
    ELSE IF Len(parts) = 1 THEN parts[1]
    ELSE parts[1] \o <<c>> \o JoinOn(Tail(parts), c)

LowerLetters ==
    <<"a", "b", "c", "d", "e", "f", "g", "h", "i", "j", "k", "l", "m", "n", "o",
      "p", "q", "r", "s", "t", "u", "v", "w", "x", "y", "z">>
UpperLetters ==
    <<"A", "B", "C", "D", "E", "F", "G", "H", "I", "J", "K", "L", "M", "N", "O",
      "P", "Q", "R", "S", "T", "U", "V", "W", "X", "Y", "Z">>
\* The characters a scheme starts with: c.isascii() and c.isalpha().
UpperSet == Range(UpperLetters)
Letters == Range(LowerLetters) \cup UpperSet
scheme_chars == Letters \cup Digits \cup {"+", "-", "."}

\* str.lower() of the characters of a scheme, which is not empty.
Lower(s) ==
    [k \in 1..Len(s) |->
        IF s[k] \in UpperSet
        THEN LowerLetters[Position(UpperLetters, s[k])] ELSE s[k]]

uses_relative ==
    {<<>>, <<"f", "t", "p">>, <<"h", "t", "t", "p">>,
     <<"g", "o", "p", "h", "e", "r">>, <<"n", "n", "t", "p">>,
     <<"i", "m", "a", "p">>, <<"w", "a", "i", "s">>, <<"f", "i", "l", "e">>,
     <<"h", "t", "t", "p", "s">>, <<"s", "h", "t", "t", "p">>,
     <<"m", "m", "s">>, <<"p", "r", "o", "s", "p", "e", "r", "o">>,
     <<"r", "t", "s", "p">>, <<"r", "t", "s", "p", "s">>,
     <<"r", "t", "s", "p", "u">>, <<"s", "f", "t", "p">>, <<"s", "v", "n">>,
     <<"s", "v", "n", "+", "s", "s", "h">>, <<"w", "s">>, <<"w", "s", "s">>}
uses_netloc ==
    {<<>>, <<"f", "t", "p">>, <<"h", "t", "t", "p">>,
     <<"g", "o", "p", "h", "e", "r">>, <<"n", "n", "t", "p">>,
     <<"t", "e", "l", "n", "e", "t">>, <<"i", "m", "a", "p">>,
     <<"w", "a", "i", "s">>, <<"f", "i", "l", "e">>, <<"m", "m", "s">>,
     <<"h", "t", "t", "p", "s">>, <<"s", "h", "t", "t", "p">>,
     <<"s", "n", "e", "w", "s">>,
     <<"p", "r", "o", "s", "p", "e", "r", "o">>, <<"r", "t", "s", "p">>,
     <<"r", "t", "s", "p", "s">>, <<"r", "t", "s", "p", "u">>,
     <<"r", "s", "y", "n", "c">>, <<"s", "v", "n">>,
     <<"s", "v", "n", "+", "s", "s", "h">>, <<"s", "f", "t", "p">>,
     <<"n", "f", "s">>, <<"g", "i", "t">>,
     <<"g", "i", "t", "+", "s", "s", "h">>, <<"w", "s">>, <<"w", "s", "s">>}
uses_params ==
    {<<>>, <<"f", "t", "p">>, <<"h", "d", "l">>,
     <<"p", "r", "o", "s", "p", "e", "r", "o">>, <<"h", "t", "t", "p">>,
     <<"i", "m", "a", "p">>, <<"h", "t", "t", "p", "s">>,
     <<"s", "h", "t", "t", "p">>, <<"r", "t", "s", "p">>,
     <<"r", "t", "s", "p", "s">>, <<"r", "t", "s", "p", "u">>,
     <<"s", "i", "p">>, <<"s", "i", "p", "s">>, <<"m", "m", "s">>,
     <<"s", "f", "t", "p">>, <<"t", "e", "l">>}

\* _WHATWG_C0_CONTROL_OR_SPACE, which urlsplit strips from the left of a url.
C0ControlOrSpace == Range(C0Controls) \cup {" "}
LStripUrl(s) ==
    SubSeq(s, Skip(s, 1, C0ControlOrSpace), Len(s))

\* _UNSAFE_URL_BYTES_TO_REMOVE: urlsplit removes tabs and line breaks from
\* the url before splitting it.
IsSafeChar(c) == c \notin {"\t", "\r", "\n"}

\* Characters whose NFKC normalisation holds one of / ? # @ : (_checknetloc).
NfkcUnsafe ==
    {"u2047", "u2048", "u2049", "u2100", "u2101", "u2105", "u2106", "u2A74",
     "uFE13", "uFE16", "uFE55", "uFE56", "uFE5F", "uFE6B", "uFF03", "uFF0F",
     "uFF1A", "uFF1F", "uFF20"}

\* ipaddress _BaseV4._parse_octet
OctetOk(o) ==
    /\ o # <<>>
    /\ \A k \in 1..Len(o) : o[k] \in Digits
    /\ Len(o) <= 3
    /\ o = <<"0">> \/ o[1] # "0"
    /\ DigitsValue(o, 0) <= 255
\* ipaddress IPv4Address(t) does not raise, for the octets of t.
IPv4Octets(octets) ==
    Len(octets) = 4 /\ \A k \in 1..4 : OctetOk(octets[k])
IPv4Ok(t) ==
    t # <<>> /\ "/" \notin Range(t) /\ IPv4Octets(SplitOn(t, "."))

\* ipaddress _BaseV6._parse_hextet
HextetOk(h) ==
    /\ \A k \in 1..Len(h) : HexValue(h[k]) >= 0
    /\ Len(h) <= 4
    /\ h # <<>>
\* The hi parts before and the lo parts after the "::" are hextets, and at
\* least one hextet was left out.
HextetsOk(parts, hi, lo) ==
    /\ hi + lo <= 7
    /\ \A k \in 1..hi : HextetOk(parts[k])
    /\ \A k \in (Len(parts) - lo + 1)..Len(parts) : HextetOk(parts[k])
\* parts[skip] is the empty part of the one "::".
WithSkip(parts, skip) ==
    /\ parts[1] = <<>> => skip = 2
    /\ parts[Len(parts)] = <<>> => skip = Len(parts) - 1
    /\ HextetsOk(parts, IF parts[1] = <<>> THEN 0 ELSE skip - 1,
                 IF parts[Len(parts)] = <<>> THEN 0 ELSE Len(parts) - skip)
WithoutSkip(parts) ==
    Len(parts) = 8 /\ \A k \in 1..8 : HextetOk(parts[k])
PartsOk(parts, empties) ==
    /\ Len(parts) <= 9
    /\ Cardinality(empties) <= 1
    /\ IF empties = {} THEN WithoutSkip(parts)
       ELSE WithSkip(parts, CHOOSE k \in empties : TRUE)
MiddleEmpties(parts) == {k \in 2..(Len(parts) - 1) : parts[k] = <<>>}
\* An IPv4 suffix is replaced by the two hextets it stands for.
WithIPv4Suffix(parts) ==
    IF "." \in Range(parts[Len(parts)])
    THEN IPv4Ok(parts[Len(parts)])
         /\ PartsOk(SubSeq(parts, 1, Len(parts) - 1) \o << <<"0">>, <<"0">> >>,
                    MiddleEmpties(SubSeq(parts, 1, Len(parts) - 1)
                                  \o << <<"0">>, <<"0">> >>))
    ELSE PartsOk(parts, MiddleEmpties(parts))
\* ipaddress _BaseV6._ip_int_from_string does not raise.
IPv6Parts(parts) == Len(parts) >= 3 /\ WithIPv4Suffix(parts)
IPv6AddrOk(a) == a # <<>> /\ IPv6Parts(SplitOn(a, ":"))
\* ipaddress IPv6Address(h) does not raise; p is the index of the first "%".
IPv6Scoped(h, p) ==
    IF p = 0 THEN IPv6AddrOk(h)
    ELSE /\ p < Len(h)
         /\ "%" \notin Range(Drop(h, p))
         /\ IPv6AddrOk(SubSeq(h, 1, p - 1))
IPv6Ok(h) == "/" \notin Range(h) /\ IPv6Scoped(h, IndexOf(h, "%", 1))

\* re.match(r"\Av[a-fA-F0-9]+\..+\Z", h), j the index after the digits.
HexChars == Range(HexUpper) \cup Range(HexLower)
SkipHex(s, i) == Skip(s, i, HexChars)
IPvFutureAt(h, j) ==
    /\ j > 2
    /\ At(h, j) = "."
    /\ j < Len(h)
    /\ \A k \in (j + 1)..Len(h) : h[k] # "\n"
\* _check_bracketed_host(h) does not raise: h is an IPvFuture address or ip_address(h) is
\* an IPv6Address.
BracketedHostOk(h) ==
    IF h # <<>> /\ h[1] = "v" THEN IPvFutureAt(h, SkipHex(h, 2)) ELSE IPv6Ok(h)

\* netloc.partition('[')[2].partition(']')[0]
UpTo(s, i) == IF i = 0 THEN s ELSE SubSeq(s, 1, i - 1)
BracketedHost(netloc) ==
    UpTo(Drop(netloc, IndexOf(netloc, "[", 1)),
         IndexOf(Drop(netloc, IndexOf(netloc, "[", 1)), "]", 1))

\* urlsplit and _checknetloc raise no ValueError for this netloc.
NetlocOk(netloc) ==
    /\ ("[" \in Range(netloc)) <=> ("]" \in Range(netloc))
    /\ "[" \in Range(netloc) => BracketedHostOk(BracketedHost(netloc))
    /\ Range(netloc) \cap NfkcUnsafe = {}

\* Index of the ":" that ends the scheme of url, 0 when it has no scheme.
SchemeAt(url, i) ==
    IF /\ i > 1
       /\ url[1] \in Letters
       /\ \A k \in 1..(i - 1) : url[k] \in scheme_chars
    THEN i ELSE 0
SchemeEnd(url) == SchemeAt(url, IndexOf(url, ":", 1))

\* _splitnetloc(url, 2): the index after the netloc, the first of / ? #.
NetlocEnd(s, i) ==
    First({k \in i..Len(s) : s[k] \in {"/", "?", "#"}} \cup {Len(s) + 1})

\* The rest of urlsplit, for what follows the netloc: fragment, then query.
SplitQuery(scheme, netloc, u, fragment, q) ==
    [ok |-> NetlocOk(netloc), scheme |-> scheme, netloc |-> netloc,
     path |-> UpTo(u, q), params |-> <<>>,
     query |-> IF q = 0 THEN <<>> ELSE Drop(u, q),
     fragment |-> fragment]
SplitFragment(scheme, netloc, u, h) ==
    SplitQuery(scheme, netloc, UpTo(u, h), IF h = 0 THEN <<>> ELSE Drop(u, h),
               IndexOf(UpTo(u, h), "?", 1))
SplitNetloc(scheme, u, e) ==
    IF StartsWith(u, <<"/", "/">>)
    THEN SplitFragment(scheme, SubSeq(u, 3, e - 1), Drop(u, e - 1),
                       IndexOf(Drop(u, e - 1), "#", 1))
    ELSE SplitFragment(scheme, <<>>, u, IndexOf(u, "#", 1))
SplitScheme(url, scheme, i) ==
    IF i = 0 THEN SplitNetloc(scheme, url, NetlocEnd(url, 3))
    ELSE SplitNetloc(Lower(SubSeq(url, 1, i - 1)), Drop(url, i),
                     NetlocEnd(Drop(url, i), 3))
CleanUrl(url) == SelectSeq(LStripUrl(url), IsSafeChar)
urlsplit(url, scheme) == SplitScheme(CleanUrl(url), scheme, SchemeEnd(CleanUrl(url)))

\* _splitparams(path), i the index of the ";" the parameters start at.
ParamsIndex(path, slash) ==
    IF slash = 0 THEN IndexOf(path, ";", 1) ELSE IndexOf(path, ";", slash)
SplitParams(r, i) ==
    IF i = 0 THEN r
    ELSE [r EXCEPT !.path = SubSeq(r.path, 1, i - 1), !.params = Drop(r.path, i)]
WithParams(r) ==
    IF r.scheme \in uses_params /\ ";" \in Range(r.path)
    THEN SplitParams(r, ParamsIndex(r.path, LastSlash(r.path, Len(r.path))))
    ELSE r
urlparse(url, scheme) == WithParams(urlsplit(url, scheme))

urlunsplit(scheme, netloc, url, query, fragment) ==
    (IF scheme # <<>> THEN scheme \o <<":">> ELSE <<>>)
    \o (IF netloc # <<>>
           \/ (scheme # <<>> /\ scheme \in uses_netloc /\ ~StartsWith(url, <<"/", "/">>))
        THEN <<"/", "/">> \o netloc
             \o (IF url # <<>> /\ url[1] # "/" THEN <<"/">> ELSE <<>>) \o url
        ELSE url)
    \o (IF query # <<>> THEN <<"?">> \o query ELSE <<>>)
    \o (IF fragment # <<>> THEN <<"#">> \o fragment ELSE <<>>)
urlunparse(r) ==
    urlunsplit(r.scheme, r.netloc,
               IF r.params # <<>> THEN r.path \o <<";">> \o r.params ELSE r.path,
               r.query, r.fragment)

\* Lines of urljoin that resolve the path: the segments of the base path
\* without its last, then those of the path.
BaseParts(parts) ==
    IF parts[Len(parts)] # <<>> THEN SubSeq(parts, 1, Len(parts) - 1) ELSE parts
IsSegment(seg) == seg # <<>>
FilterMiddle(segs) ==
    IF Len(segs) <= 2 THEN segs
    ELSE <<segs[1]>> \o SelectSeq(SubSeq(segs, 2, Len(segs) - 1), IsSegment)
         \o <<segs[Len(segs)]>>
Segments(bpath, path) ==
    IF StartsWith(path, <<"/">>) THEN SplitOn(path, "/")
    ELSE FilterMiddle(BaseParts(SplitOn(bpath, "/")) \o SplitOn(path, "/"))
RECURSIVE Resolve(_, _)
Resolve(segs, acc) ==
    IF segs = <<>> THEN acc
    ELSE IF segs[1] = <<".", ".">>
         THEN Resolve(Tail(segs), IF acc = <<>> THEN acc ELSE SubSeq(acc, 1, Len(acc) - 1))
    ELSE IF segs[1] = <<".">> THEN Resolve(Tail(segs), acc)
    ELSE Resolve(Tail(segs), Append(acc, segs[1]))
Resolved(segs) ==
    IF segs[Len(segs)] \in {<<".">>, <<".", ".">>}
    THEN Append(Resolve(segs, <<>>), <<>>) ELSE Resolve(segs, <<>>)
ResolvedPath(segs) ==
    IF JoinOn(Resolved(segs), "/") = <<>> THEN <<"/">> ELSE JoinOn(Resolved(segs), "/")

\* urljoin after the two calls of urlparse: b the parts of the base, u those
\* of the url.
JoinPath(b, u) ==
    IF u.path = <<>> /\ u.params = <<>>
    THEN urlunparse([u EXCEPT !.path = b.path, !.params = b.params,
                              !.query = IF u.query = <<>> THEN b.query ELSE @])
    ELSE urlunparse([u EXCEPT !.path = ResolvedPath(Segments(b.path, u.path))])
JoinParsed(b, u, url) ==
    IF u.scheme # b.scheme \/ u.scheme \notin uses_relative THEN url
    ELSE IF u.scheme \in uses_netloc /\ u.netloc # <<>> THEN urlunparse(u)
    ELSE IF u.scheme \in uses_netloc THEN JoinPath(b, [u EXCEPT !.netloc = b.netloc])
    ELSE JoinPath(b, u)
JoinWithBase(b, url) == JoinParsed(b, urlparse(url, b.scheme), url)

\* urllib.parse.urljoin(base, url) for two strings, where it returns.
urljoin(base, url) ==
    IF base = <<>> THEN url
    ELSE IF url = <<>> THEN base
    ELSE JoinWithBase(urlparse(base, <<>>), url)

\* urljoin(base, url) raises ValueError: urlsplit does, for one of the two.
UrlJoinRaises(base, url) ==
    /\ base # <<>>
    /\ url # <<>>
    /\ \/ ~urlparse(base, <<>>).ok
       \/ ~urlparse(url, urlparse(base, <<>>).scheme).ok

\* handle_endpoint_event(data, sse_url, state): what it does to ProxyState.
\* [kind |-> "drop"] leaves it alone, [kind |-> "set", url |-> u] calls
\* set_rpc_url(u), and [kind |-> "raise"] is an exception it lets through:
\* the RecursionError or ValueError of json.loads, the TypeError urljoin
\* raises for a truthy endpoint value that is not a string, the ValueError
\* urljoin raises for a string it cannot split.
ResolveEndpoint(endpoint_value, sse_url) ==
    IF endpoint_value.t = "raised" THEN [kind |-> "raise"]
    ELSE IF ~Truthy(endpoint_value) THEN [kind |-> "drop"]
    ELSE IF endpoint_value.t # "str" /\ sse_url = <<>>
         THEN [kind |-> "set", url |-> endpoint_value]
    ELSE IF endpoint_value.t # "str" THEN [kind |-> "raise"]
    ELSE IF UrlJoinRaises(sse_url, endpoint_value.s) THEN [kind |-> "raise"]
    ELSE [kind |-> "set", url |-> urljoin(sse_url, endpoint_value.s)]
HandleRaw(raw, sse_url) ==
    IF raw = <<>> THEN [kind |-> "drop"]
    ELSE ResolveEndpoint(EndpointValue(raw), sse_url)
handle_endpoint_event(data, sse_url) ==
    IF data = None THEN [kind |-> "drop"] ELSE HandleRaw(Strip(data[1]), sse_url)

----------------------------------------------------------------------------
(* Program constants and the inputs the environment draws from.            *)

\* DEFAULT_SSE_URL and DEFAULT_RPC_URL
DEFAULT_SSE_URL ==
    <<"h", "t", "t", "p", "s", ":", "/", "/", "m", "c", "p", ".", "d", "e", "v",
      "i", "n", ".", "a", "i", "/", "s", "s", "e">>
DEFAULT_RPC_URL ==
    <<"h", "t", "t", "p", "s", ":", "/", "/", "m", "c", "p", ".", "d", "e", "v",
      "i", "n", ".", "a", "i", "/", "m", "c", "p">>

\* A value of --rpc-url other than the default.
CUSTOM_RPC_URL == <<"h", "t", "t", "p", ":", "/", "/", "l", "/", "r">>
\* A value of --sse-url other than the default, with a directory in its path.
CUSTOM_SSE_URL == <<"h", "t", "t", "p", ":", "/", "/", "o", "/", "a", "/", "s", "s", "e">>

BACKOFF_START == 1
BACKOFF_CAP == 30
HTTP_ERROR_FROM == 400
HTTP_NOT_FOUND == 404

Min(a, b) == IF a < b THEN a ELSE b

\* Budgets of the environment per run: successful SSE connects, SSE failures
\* (failed connects and broken streams) and stdin lines.
MaxConnects == 1
MaxFailures == 1
MaxLines == 2
\* Connects of the runs that explore the SSE byte streams.
SseConnects == 1
\* Connects of the runs that explore the data of endpoint events.
EndpointConnects == 1
ReconnectConnects == 2
\* Failures of the runs that follow the backoff through its cap.
BackoffFailures == 8
\* Writes to stdout that raise, in the runs that let stdout fail.
MaxWriteFaults == 1

\* The byte streams an SSE connection may deliver.
StreamMessage == <<"d", "a", "t", "a", ":", "1", "\n", "\n">>
StreamPing ==
    <<"e", "v", "e", "n", "t", ":", "p", "i", "n", "g", "\n",
      "d", "a", "t", "a", ":", "1", "\n", "\n">>
StreamEndpoint ==
    <<"e", "v", "e", "n", "t", ":", "e", "n", "d", "p", "o", "i", "n", "t", "\n",
      "d", "a", "t", "a", ":", "/", "x", "\n", "\n">>
\* Two ping events: one with JSON data, one with an id and a path as data.
StreamPings ==
    StreamPing \o
    <<"i", "d", ":", "7", "\n", "e", "v", "e", "n", "t", ":", "p", "i", "n", "g", "\n",
      "d", "a", "t", "a", ":", "/", "x", "\n", "\n">>
\* data:"é" with CR LF line ends; the payload holds a two-byte character.
StreamUtf8 ==
    <<"d", "a", "t", "a", ":", "\"", LeadByte, ContByte, "\"", "\r", "\n", "\r", "\n">>
\* A payload that is not JSON, then one that is, then an unfinished block.
StreamMixed ==
    <<"d", "a", "t", "a", ":", "x", "\n", "\n",
      "d", "a", "t", "a", ":", "2", "\n", "\n", "d", "a", "t", "a", ":", "3", "\n">>
\* A message and the start of a block that the stream does not finish.
StreamHead ==
    <<"d", "a", "t", "a", ":", "2", "\n", "\n", "d", "a", "t", "a", ":", "3", "\n">>
\* The end of a block and a whole message: joined to the unfinished block of
\* StreamHead it would complete it.
StreamTail == <<"\n", "d", "a", "t", "a", ":", "1", "\n", "\n">>
\* An endpoint event whose JSON object gives a number for the URL.
StreamBadEndpoint ==
    <<"e", "v", "e", "n", "t", ":", "e", "n", "d", "p", "o", "i", "n", "t", "\n",
      "d", "a", "t", "a", ":", "{", "\"", "u", "r", "l", "\"", ":", "5", "}", "\n", "\n">>

\* Data of endpoint events, each with the value the decode priority gives it
\* when an object yields the first key that is present, and when it yields
\* the first key whose value is not empty; None is an event that is dropped.
EndpointCases ==
    { [data |-> <<"/", "x">>,
       present |-> Some(<<"/", "x">>), nonempty |-> Some(<<"/", "x">>)],
      [data |-> <<"\"", "/", "e", "\"">>,
       present |-> Some(<<"/", "e">>), nonempty |-> Some(<<"/", "e">>)],
      [data |-> <<"{", "\"", "e", "n", "d", "p", "o", "i", "n", "t", "\"", ":", "\"", "/", "e", "\"", "}">>,
       present |-> Some(<<"/", "e">>), nonempty |-> Some(<<"/", "e">>)],
      [data |-> <<"{", "\"", "u", "r", "l", "\"", ":", "\"", "/", "u", "\"", "}">>,
       present |-> Some(<<"/", "u">>), nonempty |-> Some(<<"/", "u">>)],
      [data |-> <<"{", "\"", "p", "a", "t", "h", "\"", ":", "\"", "/", "p", "\"", "}">>,
       present |-> Some(<<"/", "p">>), nonempty |-> Some(<<"/", "p">>)],
      [data |-> <<"{", "\"", "u", "r", "l", "\"", ":", "\"", "/", "u", "\"", ",", "\"", "e", "n", "d", "p", "o", "i", "n", "t", "\"", ":", "\"", "/", "e", "\"", "}">>,
       present |-> Some(<<"/", "e">>), nonempty |-> Some(<<"/", "e">>)],
      [data |-> <<"{", "\"", "e", "n", "d", "p", "o", "i", "n", "t", "\"", ":", "\"", "\"", ",", "\"", "u", "r", "l", "\"", ":", "\"", "/", "u", "\"", "}">>,
       present |-> None, nonempty |-> Some(<<"/", "u">>)],
      [data |-> <<"{", "\"", "a", "\"", ":", "\"", "/", "x", "\"", "}">>,
       present |-> None, nonempty |-> None],
      [data |-> <<"5">>,
       present |-> None, nonempty |-> None],
      [data |-> <<"\"", "\"">>,
       present |-> None, nonempty |-> None],
      [data |-> <<"{", "\"", "u", "r", "l", "\"", ":", "5", "}">>,
       present |-> None, nonempty |-> None],
      [data |-> <<" ">>,
       present |-> None, nonempty |-> None],
      [data |-> <<"\f", "/", "x", "xC2", "xA0">>,
       present |-> Some(<<"/", "x">>), nonempty |-> Some(<<"/", "x">>)],
      [data |-> <<"\"", "\\", "/", "e", "\\", "u", "0", "0", "e", "9", "\"">>,
       present |-> Some(<<"/", "e", "u00E9">>), nonempty |-> Some(<<"/", "e", "u00E9">>)],
      [data |-> <<"{", "\"", "e", "n", "d", "p", "o", "i", "n", "t", "\"", ":", "1", "e", "-", "4", "0", "0", ",", "\"", "p", "a", "t", "h", "\"", ":", "\"", ".", ".", "/", "p", "\"", "}">>,
       present |-> None, nonempty |-> Some(<<".", ".", "/", "p">>)],
      [data |-> <<"H", "T", "T", "P", "S", ":", "x", "?", "q">>,
       present |-> Some(<<"H", "T", "T", "P", "S", ":", "x", "?", "q">>),
       nonempty |-> Some(<<"H", "T", "T", "P", "S", ":", "x", "?", "q">>)] }
\* The stream that carries one endpoint event with the given data.
EndpointStream(data) ==
    <<"e", "v", "e", "n", "t", ":", "e", "n", "d", "p", "o", "i", "n", "t", "\n",
      "d", "a", "t", "a", ":">> \o data \o <<"\n", "\n">>

Streams ==
    {StreamMessage, StreamPing, StreamEndpoint, StreamUtf8, StreamMixed, StreamBadEndpoint}

\* A line holding an integer of one digit more than int() converts.
Repeat(c, n) == SubSeq([k \in 1..n |-> c], 1, n)
LongIntLine == Repeat("1", MaxStrDigits + 1) \o <<"\n">>

\* What sys.stdin.readline may return while stdin is open.
StdinLines == { <<"1", "\n">>, <<"x", "\n">>, <<"\n">> }
\* The lines a run may read: those of its menu and, where the budget says
\* so, the line with the long integer.
LinesOffered(b) == b.inputs \cup (IF b.long_line THEN {LongIntLine} ELSE {})

\* Two different JSON lines and one line that is not JSON.
OrderLines == 2
OrderInputs == { <<"1", "\n">>, <<"2", "\n">>, <<"x", "\n">> }

\* The status codes and Mcp-Session-Id header values of POST responses:
\* None is a response without the header, Some("") one with an empty value.
Statuses == {200, 404, 500}
HeaderValues == {None, Some(""), Some("s1"), Some("s2")}

----------------------------------------------------------------------------
(* State.                                                                  *)

VARIABLES
    \* ProxyState
    rpc_url,            \* _rpc_url
    session_id,         \* _session_id: None or Some(id)
    rpc_ready,          \* _rpc_ready.is_set()
    \* runner
    stop_event,         \* stop_event.is_set()
    r_pc,               \* "waiting" (asyncio.wait), "joining" (await task), "done"
                        \* (returned, or left by the exception of a task)
    cancel_req,         \* per task: task.cancel() called and not yet delivered
    \* read_sse_stream
    c_pc,               \* "start", "connecting", "streaming", "sleeping", "done", "cancelled"
    backoff_seconds,
    buffer,
    get_headers,        \* Mcp-Session-Id of the GET in flight, None when absent
    sleep_for,          \* argument of the asyncio.sleep in progress
    \* forward_stdin
    f_pc,               \* "start", "readline", "wait_ready", "wait_cleanup", "posting",
                        \* "body", "done", "cancelled", "raised"
    payload,            \* the stripped line being sent
    post_url,           \* target of the POST in flight
    post_headers,       \* Mcp-Session-Id of the latest POST (headers, line 229)
    resp,               \* the response whose body is awaited
    wait_done,          \* the done set of asyncio.wait in wait_for_rpc_ready
    stdout,             \* the strings written to sys.stdout, in order
    \* environment
    wire,               \* bytes the SSE server has still to send on this connection
    stdin_closed,       \* local input was closed
    budget,             \* what the environment may still do in this run: counts
                        \* (connects, failures, lines) and the inputs it draws from
    \* history
    initial_ready,      \* the initial_ready flag runner gave to ProxyState
    sse_url,            \* args.sse_url, the url parameter of read_sse_stream
    wake_pending,       \* the signal handler set stop_event while the event loop
                        \* was idle: the callbacks of its waiters are scheduled,
                        \* and run when the loop next wakes
    n_set_rpc,          \* calls of set_rpc_url so far
    n_posts,            \* POSTs issued so far
    last_resp,          \* the last response handled to the end
    fail_streak,        \* SSE failures since the last successful connect
    received,           \* bytes the consumer took in on this connection
    out_at_connect,     \* stdout when this connection was opened
    eof_read,           \* readline returned ""
    since_404,          \* the 404 responses since set_session_id last ran: "no",
                        \* "handled" (clear_session ran for one), "unread" (the
                        \* body of each could not be read, none was handled)
    lines_valid,        \* the stripped JSON lines read from stdin, in order
    sent                \* the bodies of the POSTs issued, in order

proxy == <<rpc_url, session_id, rpc_ready>>
orch == <<stop_event, r_pc, cancel_req>>
loop == <<wake_pending>>
cons == <<c_pc, backoff_seconds, buffer, get_headers, sleep_for>>
fwd == <<f_pc, payload, post_url, post_headers, resp, wait_done>>
envv == <<wire, stdin_closed, budget>>
chist == <<n_set_rpc, fail_streak, received, out_at_connect>>
fhist == <<n_posts, last_resp, eof_read, since_404, lines_valid, sent>>
vars == <<proxy, orch, loop, cons, fwd, envv, chist, fhist, stdout, initial_ready, sse_url>>

NoResp == [status |-> 0, header |-> None]

----------------------------------------------------------------------------
(* ProxyState and the request headers.                                     *)

\* ProxyState.__init__: the readiness it starts with.
InitialRpcReady(flag) == flag

\* runner: initial_ready = args.rpc_url != DEFAULT_RPC_URL
InitialReadyFlag(url) == url # DEFAULT_RPC_URL

\* Fault: set_rpc_url that leaves the readiness event cleared.
SetRpcUrlNotReady == FALSE

\* set_rpc_url: self._rpc_ready.set()
SetRpcUrlReady == TRUE

\* Python truth value of an Optional[str] holding an opaque token.
NonEmpty(h) == h # None /\ h[1] # ""

\* apply_session_headers: the Mcp-Session-Id header of a request, if any.
apply_session_headers(sid) == IF NonEmpty(sid) THEN sid ELSE None

\* Fault: a clear_session that keeps the session id.
clear_session_kept(sid) == sid

\* clear_session
clear_session(sid) == None

\* Fault: the session header is looked at on success statuses only.
SessionAfterOkResponse(sid, status, header) ==
    IF status >= HTTP_ERROR_FROM
    THEN (IF status = HTTP_NOT_FOUND THEN clear_session(sid) ELSE sid)
    ELSE IF NonEmpty(header) THEN header ELSE sid

\* forward_stdin, lines 231-240: the session id after a response was handled.
SessionAfterResponse(sid, status, header) ==
    IF NonEmpty(header) THEN header
    ELSE IF status >= HTTP_ERROR_FROM /\ status = HTTP_NOT_FOUND THEN clear_session(sid)
    ELSE sid

----------------------------------------------------------------------------
(* The consumer's handling of one chunk.                                   *)

IsEndpoint(e) == e.event = Some(EndpointName)
\* Fault: the ping test of line 180 never matches.
NeverPing(e) == FALSE
IsPing(e) == e.event = Some(PingName)

\* Line 178 with the effect h of handle_endpoint_event: set_rpc_url, or the
\* exception that leaves the stream, or nothing.
ApplyEndpoint(st, h) ==
    IF h.kind = "set"
    THEN [st EXCEPT !.rpc_url = h.url, !.rpc_ready = SetRpcUrlReady, !.n_set = @ + 1]
    ELSE IF h.kind = "raise" THEN [st EXCEPT !.raised = TRUE]
    ELSE st

\* Lines 192-193 for one line.  st.fail_at counts down to the write of this
\* chunk that raises (0: none does): sys.stdout.write raises before it took
\* the text (UnicodeEncodeError, or OSError of a closed stream), or flush
\* raises after write took it (BrokenPipeError and other OSError).  Either
\* exception leaves the stream through the except of line 196.
WriteLine(st, text) ==
    IF st.fail_at = 1
    THEN [st EXCEPT !.stdout = IF st.fail_in = "flush" THEN Append(@, text) ELSE @,
                    !.raised = TRUE, !.write_failed = TRUE, !.fail_at = 0]
    ELSE [st EXCEPT !.stdout = Append(@, text),
                    !.fail_at = IF @ > 1 THEN @ - 1 ELSE 0]

\* Lines 187-193 for the outcome r of json.loads(message): the line is
\* written, or a JSONDecodeError skips the event, or another exception
\* (RecursionError, ValueError) leaves the stream.
EmitParsed(st, message, r) ==
    IF r.ok THEN WriteLine(st, message \o <<"\n">>)
    ELSE IF r.err = "JSONDecodeError" THEN st
    ELSE [st EXCEPT !.raised = TRUE]

\* Lines 185-193 for the stripped data of a message event.
EmitMessage(st, message) ==
    IF message = <<>> THEN st
    ELSE EmitParsed(st, message, JsonLoads(message, MessageJsonDepth))

\* Lines 177-184 for a parsed event.
HandleEvent(st, e) ==
    IF IsEndpoint(e) THEN ApplyEndpoint(st, handle_endpoint_event(e.data, st.url))
    ELSE IF IsPing(e) THEN st
    ELSE IF e.data = None THEN st
    ELSE EmitMessage(st, Strip(e.data[1]))

\* Lines 175-176 for the outcome of parse_sse_block.
HandleParsed(st, ev) == IF ev = None THEN st ELSE HandleEvent(st, ev[1])

\* Lines 174-193 for one block.  st holds the url parameter, the buffer, the
\* fields of ProxyState the consumer writes, stdout, the count of
\* set_rpc_url calls, whether an exception was raised, and which write to
\* stdout raises, if any.
HandleBlock(st, block) == HandleParsed(st, parse_sse_block(block))

\* while "\n\n" in buffer: block, buffer = buffer.split("\n\n", 1); ...
RECURSIVE DrainBlocks(_)
DrainNext(next) == IF next.raised THEN next ELSE DrainBlocks(next)
DrainAt(st, i) ==
    IF i = 0 THEN st
    ELSE DrainNext(HandleBlock([st EXCEPT !.buffer = Drop(@, i + 1)],
                               SubSeq(st.buffer, 1, i - 1)))
DrainBlocks(st) == DrainAt(st, FindBlankLine(st.buffer, 1))

\* buffer += chunk.decode(...)
AppendChunk(buf, chunk) == buf \o Utf8DecodeIgnore(chunk)

\* Lines 170-193 for one chunk.
ProcessChunk(st, chunk) ==
    DrainBlocks([st EXCEPT !.buffer = ReplaceCRLF(AppendChunk(@, chunk))])

\* asyncio.sleep(min(backoff_seconds, 30)) and min(backoff_seconds * 2, 30)
SleepDuration(b) == Min(b, BACKOFF_CAP)
\* Fault: the delay is not doubled after a sleep.
NextBackoffSame(b) == b
NextBackoff(b) == Min(b * 2, BACKOFF_CAP)

----------------------------------------------------------------------------
(* Initial states: runner up to the creation of the two tasks.             *)

InitWith(b, urls) ==
    /\ rpc_url \in {DEFAULT_RPC_URL, CUSTOM_RPC_URL}
    /\ sse_url \in urls
    /\ wake_pending = FALSE
    /\ initial_ready = InitialReadyFlag(rpc_url)
    /\ rpc_ready = InitialRpcReady(initial_ready)
    /\ session_id = None
    /\ stop_event = FALSE
    /\ r_pc = "waiting"
    /\ cancel_req = [c |-> FALSE, f |-> FALSE]
    /\ c_pc = "start"
    /\ backoff_seconds = BACKOFF_START
    /\ buffer = <<>>
    /\ get_headers = None
    /\ sleep_for = 0
    /\ f_pc = "start"
    /\ payload = <<>>
    /\ post_url = <<>>
    /\ post_headers = None
    /\ resp = NoResp
    /\ wait_done = {}
    /\ stdout = <<>>
    /\ wire = <<>>
    /\ stdin_closed = FALSE
    /\ budget = b
    /\ n_set_rpc = 0
    /\ n_posts = 0
    /\ last_resp = NoResp
    /\ fail_streak = 0
    /\ received = <<>>
    /\ out_at_connect = <<>>
    /\ eof_read = FALSE
    /\ since_404 = "no"
    /\ lines_valid = <<>>
    /\ sent = <<>>

\* A task that has ended: returned, cancelled, or left by an exception.
Finished == {"done", "cancelled", "raised"}

----------------------------------------------------------------------------
(* read_sse_stream.                                                        *)

\* The while test of line 159 and, when it passes, the GET of lines 161-162.
ConsumerLoopTop ==
    /\ c_pc' = IF stop_event THEN "done" ELSE "connecting"
    /\ get_headers' = IF stop_event THEN None ELSE apply_session_headers(session_id)

\* except Exception, lines 196-200, where line 197 reads stop as the value of
\* stop_event: leave when stopping, else start the sleep.
ConsumerExceptWhen(stop) ==
    /\ c_pc' = IF stop THEN "done" ELSE "sleeping"
    /\ sleep_for' = IF stop THEN 0 ELSE SleepDuration(backoff_seconds)
    /\ fail_streak' = fail_streak + 1
ConsumerExcept == ConsumerExceptWhen(stop_event)

\* The task's first step: lines 158-162.
ConsumerStart ==
    /\ c_pc = "start" /\ ~cancel_req.c
    /\ ConsumerLoopTop
    /\ UNCHANGED <<backoff_seconds, buffer, sleep_for>>
    /\ UNCHANGED <<proxy, orch, fwd, envv, chist, fhist, stdout, initial_ready, sse_url>>
    /\ wake_pending' = FALSE

\* Fault: a connection that starts with the buffer the last one left.
ConnectOkKeepsBuffer(s) ==
    /\ c_pc = "connecting" /\ ~cancel_req.c
    /\ budget.connects > 0
    /\ budget' = [budget EXCEPT !.connects = @ - 1]
    /\ c_pc' = "streaming"
    /\ backoff_seconds' = BACKOFF_START
    /\ buffer' = buffer
    /\ get_headers' = None
    /\ wire' = s
    /\ received' = <<>>
    /\ out_at_connect' = stdout
    /\ fail_streak' = 0
    /\ UNCHANGED <<sleep_for, stdin_closed, n_set_rpc>>
    /\ UNCHANGED <<proxy, orch, fwd, fhist, stdout, initial_ready, sse_url>>
    /\ wake_pending' = FALSE

\* The GET succeeds: lines 163-166.  The server will send stream s.
ConnectOk(s) ==
    /\ c_pc = "connecting" /\ ~cancel_req.c
    /\ budget.connects > 0
    /\ budget' = [budget EXCEPT !.connects = @ - 1]
    /\ c_pc' = "streaming"
    /\ backoff_seconds' = BACKOFF_START
    /\ buffer' = <<>>
    /\ get_headers' = None
    /\ wire' = s
    /\ received' = <<>>
    /\ out_at_connect' = stdout
    /\ fail_streak' = 0
    /\ UNCHANGED <<sleep_for, stdin_closed, n_set_rpc>>
    /\ UNCHANGED <<proxy, orch, fwd, fhist, stdout, initial_ready, sse_url>>
    /\ wake_pending' = FALSE

\* Fault: a consumer that clears the session when its GET fails.
ConnectFailClearsSession ==
    /\ c_pc = "connecting" /\ ~cancel_req.c
    /\ budget.failures > 0
    /\ budget' = [budget EXCEPT !.failures = @ - 1]
    /\ ConsumerExcept
    /\ get_headers' = None
    /\ session_id' = clear_session(session_id)
    /\ UNCHANGED <<backoff_seconds, buffer, wire, stdin_closed>>
    /\ UNCHANGED <<n_set_rpc, received, out_at_connect>>
    /\ UNCHANGED <<rpc_url, rpc_ready, orch, fwd, fhist, stdout, initial_ready, sse_url>>
    /\ wake_pending' = FALSE

\* The GET fails (transport error, or raise_for_status on an error status).
ConnectFail ==
    /\ c_pc = "connecting" /\ ~cancel_req.c
    /\ budget.failures > 0
    /\ budget' = [budget EXCEPT !.failures = @ - 1]
    /\ ConsumerExcept
    /\ get_headers' = None
    /\ UNCHANGED <<backoff_seconds, buffer, wire, stdin_closed>>
    /\ UNCHANGED <<n_set_rpc, received, out_at_connect>>
    /\ UNCHANGED <<proxy, orch, fwd, fhist, stdout, initial_ready, sse_url>>
    /\ wake_pending' = FALSE

\* asyncio.sleep returns: line 201, then the loop test.
SleepDone ==
    /\ c_pc = "sleeping" /\ ~cancel_req.c
    /\ backoff_seconds' = NextBackoff(backoff_seconds)
    /\ sleep_for' = 0
    /\ ConsumerLoopTop
    /\ UNCHANGED buffer
    /\ UNCHANGED <<proxy, orch, fwd, envv, chist, fhist, stdout, initial_ready, sse_url>>
    /\ wake_pending' = FALSE

\* The state after a chunk was handled with outcome st: an exception raised
\* while handling it takes the except path.  Line 168 found stop_event unset;
\* line 197 reads it again in the same callback, and _signal_handler, which
\* runs between two bytecodes, may have set it in between (sig).
AfterChunk(st, k) ==
    /\ budget' = IF st.write_failed THEN [budget EXCEPT !.write_faults = @ - 1]
                  ELSE budget
    /\ buffer' = st.buffer
    /\ rpc_url' = st.rpc_url
    /\ rpc_ready' = st.rpc_ready
    /\ stdout' = st.stdout
    /\ n_set_rpc' = st.n_set
    /\ received' = received \o SubSeq(wire, 1, k)
    /\ IF st.raised
       THEN /\ \E sig \in BOOLEAN : stop_event' = sig /\ ConsumerExceptWhen(sig)
            /\ wire' = <<>>
       ELSE /\ wire' = Drop(wire, k)
            /\ UNCHANGED <<c_pc, sleep_for, fail_streak, stop_event>>
    /\ UNCHANGED <<session_id, out_at_connect>>

\* No write to stdout raises.
NoFault == [at |-> 0, in |-> "write"]

\* The locals and state that lines 170-193 start from, with the fault of
\* stdout the environment has chosen for this chunk.
ChunkState(fault) ==
    [buffer |-> buffer, rpc_url |-> rpc_url, rpc_ready |-> rpc_ready,
     stdout |-> stdout, n_set |-> n_set_rpc, raised |-> FALSE, url |-> sse_url,
     fail_at |-> fault.at, fail_in |-> fault.in, write_failed |-> FALSE]

\* The faults of stdout that can happen in a chunk whose handling without a
\* fault ends in st: any of its writes may raise, in write or in flush.
WriteFaultsOf(st) ==
    IF budget.write_faults > 0
    THEN {[at |-> n, in |-> w] : n \in 1..(Len(st.stdout) - Len(stdout)),
                                  w \in budget.fault_in}
    ELSE {}

\* Lines 170-193 for the next k bytes, st being their handling without a
\* fault of stdout.
ChunkOutcomes(st, k) ==
    \/ AfterChunk(st, k)
    \/ \E fault \in WriteFaultsOf(st) :
          AfterChunk(ProcessChunk(ChunkState(fault), SubSeq(wire, 1, k)), k)

\* iter_any yields the next k bytes: lines 167-193, and lines 196-200 when
\* they raise.
RecvChunk(k) ==
    /\ c_pc = "streaming" /\ ~cancel_req.c
    /\ k \in 1..Len(wire)
    /\ budget.cuts \/ k = Len(wire)
    /\ IF stop_event
       THEN \* break, then the loop test fails
            /\ c_pc' = "done"
            /\ wire' = <<>>
            /\ UNCHANGED <<buffer, sleep_for, proxy, stdout, chist, budget>>
            /\ UNCHANGED stop_event
       ELSE ChunkOutcomes(ProcessChunk(ChunkState(NoFault), SubSeq(wire, 1, k)), k)
    /\ UNCHANGED <<backoff_seconds, get_headers, stdin_closed>>
    /\ UNCHANGED <<r_pc, cancel_req, fwd, fhist, initial_ready, sse_url>>
    /\ wake_pending' = FALSE

\* The server ends the response: the async for ends, then the loop test.
StreamEnd ==
    /\ c_pc = "streaming" /\ ~cancel_req.c
    /\ wire = <<>>
    /\ ConsumerLoopTop
    /\ UNCHANGED <<backoff_seconds, buffer, sleep_for>>
    /\ UNCHANGED <<proxy, orch, fwd, envv, chist, fhist, stdout, initial_ready, sse_url>>
    /\ wake_pending' = FALSE

\* The stream breaks with a transport error.
StreamError ==
    /\ c_pc = "streaming" /\ ~cancel_req.c
    /\ budget.failures > 0
    /\ budget' = [budget EXCEPT !.failures = @ - 1]
    /\ ConsumerExcept
    /\ wire' = <<>>
    /\ UNCHANGED <<backoff_seconds, buffer, get_headers, stdin_closed>>
    /\ UNCHANGED <<n_set_rpc, received, out_at_connect>>
    /\ UNCHANGED <<proxy, orch, fwd, fhist, stdout, initial_ready, sse_url>>
    /\ wake_pending' = FALSE

\* A cancellation caught by the except Exception branch of lines 196-201.
ConsumerCancelledAsError ==
    /\ c_pc \in {"connecting", "streaming", "sleeping"} /\ cancel_req.c
    /\ ConsumerExcept
    /\ cancel_req' = [cancel_req EXCEPT !.c = FALSE]
    /\ get_headers' = None
    /\ wire' = <<>>
    /\ UNCHANGED <<backoff_seconds, buffer, stop_event, r_pc, stdin_closed, budget>>
    /\ UNCHANGED <<proxy, fwd, n_set_rpc, received, out_at_connect, fhist, stdout, initial_ready, sse_url>>
    /\ wake_pending' = FALSE

\* CancelledError at the await the task is suspended in: lines 194-195.
ConsumerCancelled ==
    /\ c_pc \in {"connecting", "streaming", "sleeping"} /\ cancel_req.c
    /\ c_pc' = "cancelled"
    /\ cancel_req' = [cancel_req EXCEPT !.c = FALSE]
    /\ get_headers' = None
    /\ sleep_for' = 0
    /\ wire' = <<>>
    /\ UNCHANGED <<backoff_seconds, buffer, stop_event, r_pc, stdin_closed, budget>>
    /\ UNCHANGED <<proxy, fwd, chist, fhist, stdout, initial_ready, sse_url>>
    /\ wake_pending' = FALSE

----------------------------------------------------------------------------
(* forward_stdin.                                                          *)

\* The while test of line 210 and, when it passes, the readline of line 211.
ForwarderLoopTop(stop) ==
    /\ f_pc' = IF stop THEN "done" ELSE "readline"
    /\ payload' = <<>>
    /\ post_url' = <<>>
    /\ UNCHANGED post_headers
    /\ resp' = NoResp
    /\ wait_done' = {}

\* A POST whose headers were built once and are reused by later iterations.
IssuePostCachedHeaders(body) ==
    /\ f_pc' = "posting"
    /\ payload' = body
    /\ post_url' = rpc_url
    /\ post_headers' = post_headers
    /\ n_posts' = n_posts + 1
    /\ sent' = Append(sent, body)
    /\ resp' = NoResp
    /\ wait_done' = {}

\* Lines 228-230: the POST is sent to the current URL with the current session.
IssuePost(body) ==
    /\ f_pc' = "posting"
    /\ payload' = body
    /\ post_url' = rpc_url
    /\ post_headers' = apply_session_headers(session_id)
    /\ n_posts' = n_posts + 1
    /\ sent' = Append(sent, body)
    /\ resp' = NoResp
    /\ wait_done' = {}

\* The task's first step: line 210.
ForwarderStart ==
    /\ f_pc = "start" /\ ~cancel_req.f
    /\ ForwarderLoopTop(stop_event)
    /\ UNCHANGED <<proxy, orch, cons, envv, chist, fhist, stdout, initial_ready, sse_url>>
    /\ wake_pending' = FALSE

\* Lines 217-230 for the stripped line and the outcome r of json.loads, up
\* to the first suspension.  Only JSONDecodeError is caught at line 221:
\* another exception of json.loads (RecursionError, ValueError) ends the task.
HandleParsedLine(stripped, r) ==
    IF stripped = <<>> \/ (~r.ok /\ r.err = "JSONDecodeError")
    THEN ForwarderLoopTop(stop_event) /\ UNCHANGED <<n_posts, sent, lines_valid>>
    ELSE IF ~r.ok
    THEN /\ f_pc' = "raised"
         /\ UNCHANGED <<payload, post_url, post_headers, resp, wait_done>>
         /\ UNCHANGED <<n_posts, sent, lines_valid>>
    ELSE /\ lines_valid' = Append(lines_valid, stripped)
         /\ IF rpc_ready                 \* wait_for_rpc_ready, line 87
            THEN IssuePost(stripped)
            ELSE IF stop_event           \* line 89, then line 111
                 THEN /\ f_pc' = "done"
                      /\ UNCHANGED <<payload, post_url, post_headers, resp, wait_done>>
                      /\ UNCHANGED <<n_posts, sent>>
                 ELSE /\ f_pc' = "wait_ready"
                      /\ payload' = stripped
                      /\ UNCHANGED <<post_url, post_headers, resp, wait_done>>
                      /\ UNCHANGED <<n_posts, sent>>
HandleLine(stripped) == HandleParsedLine(stripped, JsonLoads(stripped, StdinJsonDepth))

\* readline returns a line: lines 212-230 up to the first suspension.
ReadLine(line) ==
    /\ f_pc = "readline" /\ ~cancel_req.f
    /\ ~stdin_closed
    /\ budget.lines > 0
    /\ budget' = [budget EXCEPT !.lines = @ - 1]
    /\ HandleLine(Strip(line))
    /\ UNCHANGED <<wire, stdin_closed, last_resp, eof_read, since_404>>
    /\ UNCHANGED <<proxy, orch, cons, chist, stdout, initial_ready, sse_url>>
    /\ wake_pending' = FALSE

\* readline returns "": lines 212-215.
ReadEOF ==
    /\ f_pc = "readline" /\ ~cancel_req.f
    /\ stdin_closed
    /\ stop_event' = TRUE
    /\ f_pc' = "done"
    /\ eof_read' = TRUE
    /\ UNCHANGED <<payload, post_url, post_headers, resp, wait_done>>
    /\ UNCHANGED <<r_pc, cancel_req, n_posts, last_resp, since_404, lines_valid, sent>>
    /\ UNCHANGED <<proxy, cons, envv, chist, stdout, initial_ready, sse_url>>
    /\ wake_pending' = FALSE

\* readline raises at line 211: UnicodeDecodeError on bytes that are not
\* UTF-8, OSError or ValueError on a broken or closed stdin.  No handler
\* encloses the call, so forward_stdin ends with the exception: stop_event is
\* left as it was and nothing is posted.
ReadLineRaises ==
    /\ f_pc = "readline" /\ ~cancel_req.f
    /\ f_pc' = "raised"
    /\ UNCHANGED <<payload, post_url, post_headers, resp, wait_done>>
    /\ UNCHANGED <<n_posts, last_resp, eof_read, since_404, lines_valid, sent>>
    /\ UNCHANGED <<proxy, orch, cons, envv, chist, stdout, initial_ready, sse_url>>
    /\ wake_pending' = FALSE

\* Fault: wait_for_rpc_ready reports readiness whichever wait completed, so
\* the line is sent when only the stop signal was set.
WaitReadyWakeSends(d) ==
    /\ f_pc = "wait_ready" /\ ~cancel_req.f
    /\ ~wake_pending
    /\ d # {}
    /\ "rpc" \in d => rpc_ready
    /\ "stop" \in d => stop_event
    /\ IssuePost(payload)
    /\ UNCHANGED <<last_resp, eof_read, since_404, lines_valid>>
    /\ UNCHANGED <<proxy, orch, cons, envv, chist, stdout, initial_ready, sse_url>>
    /\ wake_pending' = FALSE

\* asyncio.wait of line 92 returns with the done set d: lines 96-110.  It
\* returns in a pass of the event loop, so not while the loop sleeps.  With
\* nothing pending the rest runs without suspending; otherwise the pending
\* task is cancelled and awaited.
WaitReadyWake(d) ==
    /\ f_pc = "wait_ready" /\ ~cancel_req.f
    /\ ~wake_pending
    /\ d # {}
    /\ "rpc" \in d => rpc_ready
    /\ "stop" \in d => stop_event
    /\ IF d = {"rpc", "stop"}
       THEN IssuePost(payload)
       ELSE /\ f_pc' = "wait_cleanup"
            /\ wait_done' = d
            /\ UNCHANGED <<payload, post_url, post_headers, resp, n_posts, sent>>
    /\ UNCHANGED <<last_resp, eof_read, since_404, lines_valid>>
    /\ UNCHANGED <<proxy, orch, cons, envv, chist, stdout, initial_ready, sse_url>>
    /\ wake_pending' = FALSE

\* The await of the cancelled pending task (line 99) returns, or a
\* cancellation of the forwarder arrives there and is suppressed with it:
\* lines 100-110, then 226-230.
WaitCleanupDone ==
    /\ f_pc = "wait_cleanup"
    /\ cancel_req' = [cancel_req EXCEPT !.f = FALSE]
    /\ IF "rpc" \in wait_done
       THEN IssuePost(payload)
       ELSE /\ f_pc' = "done"
            /\ wait_done' = {}
            /\ UNCHANGED <<payload, post_url, post_headers, resp, n_posts, sent>>
    /\ UNCHANGED <<stop_event, r_pc, last_resp, eof_read, since_404, lines_valid>>
    /\ UNCHANGED <<proxy, cons, envv, chist, stdout, initial_ready, sse_url>>
    /\ wake_pending' = FALSE

\* Lines 236-240 for a response, and the history of it.
HandleResponse(r) ==
    /\ session_id' = SessionAfterResponse(session_id, r.status, r.header)
    /\ last_resp' = r
    /\ since_404' = IF NonEmpty(r.header) THEN "no"
                    ELSE IF r.status = HTTP_NOT_FOUND THEN "handled" ELSE since_404
    /\ ForwarderLoopTop(stop_event)

\* The response head arrives: line 231.  An error status waits for the body.
PostResponse(status, header) ==
    /\ f_pc = "posting" /\ ~cancel_req.f
    /\ IF status >= HTTP_ERROR_FROM
       THEN /\ f_pc' = "body"
            /\ resp' = [status |-> status, header |-> header]
            /\ UNCHANGED <<payload, post_url, post_headers, wait_done>>
            /\ UNCHANGED <<session_id, last_resp, since_404>>
       ELSE HandleResponse([status |-> status, header |-> header])
    /\ UNCHANGED <<rpc_url, rpc_ready, n_posts, eof_read, lines_valid, sent>>
    /\ UNCHANGED <<orch, cons, envv, chist, stdout, initial_ready, sse_url>>
    /\ wake_pending' = FALSE

\* The POST fails with a transport error: lines 243-244.
PostError ==
    /\ f_pc = "posting" /\ ~cancel_req.f
    /\ ForwarderLoopTop(stop_event)
    /\ UNCHANGED <<proxy, orch, cons, envv, chist, fhist, stdout, initial_ready, sse_url>>
    /\ wake_pending' = FALSE

\* Fault: the message is sent again after an error status.
BodyOkResends ==
    /\ f_pc = "body" /\ ~cancel_req.f
    /\ n_posts < OrderLines + 1
    /\ IssuePost(payload)
    /\ UNCHANGED <<last_resp, eof_read, since_404, lines_valid>>
    /\ UNCHANGED <<proxy, orch, cons, envv, chist, stdout, initial_ready, sse_url>>
    /\ wake_pending' = FALSE

\* resp.text() returns: lines 233-240.
BodyOk ==
    /\ f_pc = "body" /\ ~cancel_req.f
    /\ HandleResponse(resp)
    /\ UNCHANGED <<rpc_url, rpc_ready, n_posts, eof_read, lines_valid, sent>>
    /\ UNCHANGED <<orch, cons, envv, chist, stdout, initial_ready, sse_url>>
    /\ wake_pending' = FALSE

\* resp.text() raises at line 232: lines 243-244.  Lines 236-240 are skipped,
\* whatever the status and the headers of the response.
BodyError ==
    /\ f_pc = "body" /\ ~cancel_req.f
    /\ ForwarderLoopTop(stop_event)
    /\ since_404' = IF resp.status = HTTP_NOT_FOUND /\ since_404 = "no"
                    THEN "unread" ELSE since_404
    /\ UNCHANGED <<n_posts, last_resp, eof_read, lines_valid, sent>>
    /\ UNCHANGED <<proxy, orch, cons, envv, chist, stdout, initial_ready, sse_url>>
    /\ wake_pending' = FALSE

\* CancelledError at the await the task is suspended in: lines 241-242.
ForwarderCancelled ==
    /\ f_pc \in {"readline", "wait_ready", "posting", "body"} /\ cancel_req.f
    /\ f_pc' = "cancelled"
    /\ cancel_req' = [cancel_req EXCEPT !.f = FALSE]
    /\ UNCHANGED <<payload, post_url, post_headers, resp, wait_done>>
    /\ UNCHANGED <<stop_event, r_pc>>
    /\ UNCHANGED <<proxy, cons, envv, chist, fhist, stdout, initial_ready, sse_url>>
    /\ wake_pending' = FALSE

----------------------------------------------------------------------------
(* runner, the signal handler and local input.                             *)

\* asyncio.wait(FIRST_COMPLETED) returns: lines 328-331.
RunnerFirstDone ==
    /\ r_pc = "waiting"
    /\ c_pc # "start" /\ f_pc # "start"
    /\ c_pc \in Finished \/ f_pc \in Finished
    /\ stop_event' = TRUE
    /\ cancel_req' = [c |-> c_pc \notin Finished, f |-> f_pc \notin Finished]
    /\ r_pc' = "joining"
    /\ UNCHANGED <<proxy, cons, fwd, envv, chist, fhist, stdout, initial_ready, sse_url>>
    /\ wake_pending' = FALSE

\* A runner that returns after the cancel requests without awaiting the tasks.
RunnerReturnsEarly ==
    /\ r_pc = "joining"
    /\ r_pc' = "done"
    /\ UNCHANGED <<stop_event, cancel_req>>
    /\ UNCHANGED <<proxy, cons, fwd, envv, chist, fhist, stdout, initial_ready, sse_url>>
    /\ wake_pending' = FALSE

\* Both awaits of lines 332-334 have ended; the session is closed.  The
\* await of a forwarder that ended with an exception raises it out of runner.
RunnerJoined ==
    /\ r_pc = "joining"
    /\ c_pc \in Finished /\ f_pc \in Finished
    /\ r_pc' = "done"
    /\ UNCHANGED <<stop_event, cancel_req>>
    /\ UNCHANGED <<proxy, cons, fwd, envv, chist, fhist, stdout, initial_ready, sse_url>>
    /\ wake_pending' = FALSE

\* No task of the event loop can run: the consumer waits for the network or
\* for its timer, the forwarder waits at line 92 for events that are not set,
\* and runner waits for the first of them to end.
LoopIdle ==
    /\ c_pc \in {"connecting", "streaming", "sleeping"} /\ ~cancel_req.c
    /\ f_pc = "wait_ready" /\ ~cancel_req.f
    /\ ~rpc_ready /\ ~stop_event
    /\ r_pc = "waiting"

\* _signal_handler for SIGINT or SIGTERM, installed with signal.signal at
\* lines 284-292: it runs in the main thread between two bytecodes or inside
\* the selector's wait, which is then resumed.  stop_event.set() schedules the
\* callbacks of the waiters of line 91 and does not wake the loop, so when
\* the loop is idle they run only after something else wakes it.
Signal ==
    /\ r_pc # "done"
    /\ ~stop_event
    /\ stop_event' = TRUE
    /\ wake_pending' \in (IF LoopIdle THEN BOOLEAN ELSE {FALSE})
    /\ UNCHANGED <<r_pc, cancel_req>>
    /\ UNCHANGED <<proxy, cons, fwd, envv, chist, fhist, stdout, initial_ready, sse_url>>

\* The local client closes the proxy's standard input.
CloseStdin ==
    /\ r_pc # "done"
    /\ ~stdin_closed
    /\ stdin_closed' = TRUE
    /\ UNCHANGED wake_pending
    /\ UNCHANGED <<wire, budget>>
    /\ UNCHANGED <<proxy, orch, cons, fwd, chist, fhist, stdout, initial_ready, sse_url>>

----------------------------------------------------------------------------
(* Specifications.                                                         *)

Consumer ==
    \/ ConsumerStart
    \/ \E s \in budget.streams : ConnectOk(s)
    \/ ConnectFail
    \/ SleepDone
    \/ \E k \in 1..Len(wire) : RecvChunk(k)
    \/ StreamEnd
    \/ StreamError
    \/ ConsumerCancelled

Forwarder ==
    \/ ForwarderStart
    \/ \E line \in LinesOffered(budget) : ReadLine(line)
    \/ ReadEOF
    \/ ReadLineRaises
    \/ \E d \in SUBSET {"rpc", "stop"} : WaitReadyWake(d)
    \/ WaitCleanupDone
    \/ \E status \in budget.statuses, header \in budget.headers :
          PostResponse(status, header)
    \/ PostError
    \/ BodyOk
    \/ BodyError
    \/ ForwarderCancelled

Runner == RunnerFirstDone \/ RunnerJoined

Next == Consumer \/ Forwarder \/ Runner \/ Signal \/ CloseStdin

\* Runs that explore the forwarder: every input line, status and header, and
\* an SSE stream that discovers the endpoint, delivered in one chunk.
Init ==
    InitWith([connects |-> MaxConnects, failures |-> MaxFailures, lines |-> MaxLines,
              streams |-> {StreamEndpoint}, cuts |-> FALSE,
              long_line |-> FALSE, write_faults |-> 0, fault_in |-> {},
              inputs |-> StdinLines, statuses |-> Statuses,
              headers |-> HeaderValues],
             {DEFAULT_SSE_URL})

Spec == Init /\ [][Next]_vars

\* Runs that explore the consumer: every stream, cut into chunks at every
\* byte, and one input line.
SseInit ==
    InitWith([connects |-> SseConnects, failures |-> MaxFailures, lines |-> 1,
              streams |-> Streams, cuts |-> TRUE,
              long_line |-> FALSE, write_faults |-> 0, fault_in |-> {},
              inputs |-> { <<"1", "\n">> }, statuses |-> {HTTP_NOT_FOUND},
              headers |-> {None}],
             {DEFAULT_SSE_URL, CUSTOM_SSE_URL})

SseSpec == SseInit /\ [][Next]_vars

\* Runs that follow the consumer through repeated failures, past the cap of
\* its backoff, around streams of message and ping events.
BackoffInit ==
    InitWith([connects |-> MaxConnects, failures |-> BackoffFailures, lines |-> 1,
              streams |-> {StreamMessage, StreamPings}, cuts |-> FALSE,
              long_line |-> FALSE, write_faults |-> MaxWriteFaults, fault_in |-> {"write", "flush"},
              inputs |-> { <<"1", "\n">> }, statuses |-> {HTTP_NOT_FOUND},
              headers |-> {None}],
             {DEFAULT_SSE_URL})

BackoffSpec == BackoffInit /\ [][Next]_vars

\* What the event loop guarantees: a task that can run its next step runs it,
\* a cancellation is delivered, a sleep expires, a closed stdin ends the
\* readline, and the wait of line 92 returns once one of its events is set
\* and the loop is awake (WaitReadyWake is disabled while wake_pending).
\* Nothing is assumed of the network peer or of the local client, no signal
\* is required to arrive, and nothing wakes a loop that a signal found idle.
Fairness ==
    /\ WF_vars(ConsumerStart)
    /\ WF_vars(SleepDone)
    /\ WF_vars(ConsumerCancelled)
    /\ WF_vars(ForwarderStart)
    /\ WF_vars(ReadEOF)
    /\ WF_vars(\E d \in SUBSET {"rpc", "stop"} : WaitReadyWake(d))
    /\ WF_vars(WaitCleanupDone)
    /\ WF_vars(ForwarderCancelled)
    /\ WF_vars(RunnerFirstDone)
    /\ WF_vars(RunnerJoined)

\* Runs of one connection and one input line under that scheduling.
FairInit ==
    InitWith([connects |-> MaxConnects, failures |-> MaxFailures, lines |-> 1,
              streams |-> {StreamEndpoint}, cuts |-> FALSE,
              long_line |-> FALSE, write_faults |-> MaxWriteFaults, fault_in |-> {"write", "flush"},
              inputs |-> { <<"1", "\n">> }, statuses |-> {HTTP_NOT_FOUND},
              headers |-> {None}],
             {DEFAULT_SSE_URL})

FairSpec == FairInit /\ [][Next]_vars /\ Fairness

\* Runs with two connections, where the first may end or break inside a
\* block, or be left because stdout refuses a line.
ReconnectInit ==
    InitWith([connects |-> ReconnectConnects, failures |-> MaxFailures, lines |-> 1,
              streams |-> {StreamHead, StreamTail}, cuts |-> TRUE,
              long_line |-> FALSE, write_faults |-> MaxWriteFaults, fault_in |-> {"write"},
              inputs |-> { <<"1", "\n">> }, statuses |-> {HTTP_NOT_FOUND},
              headers |-> {None}],
             {DEFAULT_SSE_URL})

ReconnectSpec == ReconnectInit /\ [][Next]_vars

\* Runs whose stream carries one endpoint event, with every data of the menu.
EndpointInit ==
    InitWith([connects |-> EndpointConnects, failures |-> MaxFailures, lines |-> 1,
              streams |-> {EndpointStream(c.data) : c \in EndpointCases},
              cuts |-> FALSE,
              long_line |-> FALSE, write_faults |-> 0, fault_in |-> {},
              inputs |-> { <<"1", "\n">> }, statuses |-> {HTTP_NOT_FOUND},
              headers |-> {None}],
             {DEFAULT_SSE_URL, CUSTOM_SSE_URL})

EndpointSpec == EndpointInit /\ [][Next]_vars

\* Runs with distinguishable input lines, whose POSTs succeed, get an error
\* status or fail.
OrderInit ==
    InitWith([connects |-> MaxConnects, failures |-> MaxFailures, lines |-> OrderLines,
              streams |-> {StreamEndpoint}, cuts |-> FALSE,
              long_line |-> TRUE, write_faults |-> 0, fault_in |-> {},
              inputs |-> OrderInputs, statuses |-> {200, 500},
              headers |-> {None}],
             {DEFAULT_SSE_URL})

OrderSpec == OrderInit /\ [][Next]_vars

----------------------------------------------------------------------------
(* Properties.                                                             *)

\* The forwarder is inside wait_for_rpc_ready.
Waiting == {"wait_ready", "wait_cleanup"}
\* A step that issues a POST is taken with the readiness event set.
PostNeedsReady == n_posts' # n_posts => rpc_ready
\* A step out of the wait is taken with readiness or stop set, and one that
\* sends nothing is taken with stop set and ends the forwarder.
WaitEnds ==
    f_pc \in Waiting /\ f_pc' \notin Waiting =>
        /\ rpc_ready \/ stop_event
        /\ n_posts' = n_posts => stop_event /\ f_pc' \in Finished

\* C1: in a run whose initial readiness is false no POST is issued, and the
\* readiness event is not set, before set_rpc_url has run; a valid line stays
\* in wait_for_rpc_ready until readiness or the stop signal is set, and when
\* the stop signal wins the forwarder ends without sending the line.
BlockedUntilReady ==
    /\ [](~initial_ready /\ (rpc_ready \/ n_posts > 0) => n_set_rpc > 0)
    /\ [][PostNeedsReady /\ WaitEnds]_vars

\* The stop signal won the wait: the forwarder ended holding the unsent line.
StopWonTheWait ==
    ~initial_ready /\ f_pc = "done" /\ payload # <<>> /\ n_posts = 0 /\ stop_event

\* C2: once local input is closed, the consumer and the forwarder eventually
\* end and runner returns, whatever state the two paths were in.
ClosedInputEndsTheRun ==
    stdin_closed ~> (c_pc \in Finished /\ f_pc \in Finished /\ r_pc = "done")

\* C3: once the stop signal is set, by end of input, by a signal handler or by
\* runner, the consumer and the forwarder both eventually end, whatever
\* suspension point each was at.
StopEndsBothPaths == stop_event ~> (c_pc \in Finished /\ f_pc \in Finished)

\* The blocks of a text that the blank-line delimiter has completed.
RECURSIVE CompleteBlocks(_)
CompleteBlocks(text) ==
    LET i == FindBlankLine(text, 1)
    IN  IF i = 0 THEN <<>>
        ELSE <<SubSeq(text, 1, i - 1)>> \o CompleteBlocks(Drop(text, i + 1))

\* The output line a block calls for: its trimmed data and a newline when the
\* event is neither endpoint nor ping and the trimmed data is JSON.
BlockLine(block) ==
    LET ev == parse_sse_block(block) IN
    IF ev = None THEN <<>>
    ELSE IF ev[1].event \in {Some(EndpointName), Some(PingName)} THEN <<>>
    ELSE IF ev[1].data = None THEN <<>>
    ELSE IF Strip(ev[1].data[1]) # <<>> /\ JsonLoads(Strip(ev[1].data[1]), MessageJsonDepth).ok
         THEN << Strip(ev[1].data[1]) \o <<"\n">> >>
         ELSE <<>>
RECURSIVE LinesOf(_)
LinesOf(blocks) ==
    IF blocks = <<>> THEN <<>> ELSE BlockLine(Head(blocks)) \o LinesOf(Tail(blocks))
\* The lines the bytes of a stream call for, decoded as one text.
ReferenceLines(bytes) == LinesOf(CompleteBlocks(ReplaceCRLF(Utf8DecodeIgnore(bytes))))

\* C4: the lines written to local output on a connection are exactly the
\* trimmed payloads of the complete blocks received on it whose event is
\* neither endpoint nor ping and whose trimmed data is JSON, one line per
\* block, in the order of arrival.
OutputIsTheMessageBlocks == stdout = out_at_connect \o ReferenceLines(received)

\* What read_sse_stream writes for bytes that arrive as a single chunk.
OneChunkOutput(bytes) ==
    ProcessChunk([ChunkState(NoFault) EXCEPT !.buffer = <<>>, !.stdout = <<>>,
                                             !.n_set = 0],
                 bytes).stdout

\* C5: the output for the bytes of a stream does not depend on how they were
\* cut into chunks: whatever the cuts, it is the output of the same bytes
\* arriving as one chunk.
OutputIgnoresChunking == stdout = out_at_connect \o OneChunkOutput(received)

\* The delays of the schedule, by the number of consecutive failures.
DelaySchedule == <<1, 2, 4, 8, 16>>
ExpectedDelay(n) == IF n <= Len(DelaySchedule) THEN DelaySchedule[n] ELSE 30

\* C6: the sleep after the n-th consecutive failure since the last successful
\* connect lasts 1, 2, 4, 8, 16, 30, 30, ... and never more than 30; the
\* first failure after a successful connect is followed by a sleep of 1.
BackoffFollowsSchedule ==
    c_pc = "sleeping" => sleep_for = ExpectedDelay(fail_streak) /\ sleep_for <= 30

\* The consumer sleeps after its seventh consecutive failure.
SleepsAtTheCap == c_pc = "sleeping" /\ fail_streak = 7

\* clear_session ran for a 404 response and set_session_id has not run since.
after_404 == since_404 = "handled"

SessionFollowsHeader == NonEmpty(last_resp.header) => session_id = last_resp.header

\* C8: after a POST response that carries an Mcp-Session-Id header was
\* handled, whatever its status, the session id is the value of that header.
SessionFollowsAnyHeader == last_resp.header # None => session_id = last_resp.header

\* A 404 response to a POST sent with session s1 rotated the session to s2.
RotatedOn404 ==
    /\ last_resp = [status |-> HTTP_NOT_FOUND, header |-> Some("s2")]
    /\ post_headers = Some("s1")
    /\ session_id = Some("s2")

\* The consumer takes the next k bytes of the stream as a chunk.
ChunkReceived(k) == c_pc = "streaming" /\ received' = received \o SubSeq(wire, 1, k)
IsPingBlock(block) ==
    /\ parse_sse_block(block) # None
    /\ parse_sse_block(block)[1].event = Some(PingName)
AllPings(blocks) ==
    blocks # <<>> /\ \A j \in 1..Len(blocks) : IsPingBlock(blocks[j])
\* The buffer with that chunk decoded and appended holds complete blocks, and
\* all of them are ping events.
OnlyPings(k) ==
    AllPings(CompleteBlocks(ReplaceCRLF(AppendChunk(buffer, SubSeq(wire, 1, k)))))

\* C9: handling ping events, whatever data or id they carry, writes nothing
\* to local output and leaves rpc_url, session_id and the ready flag as they
\* were.
PingHasNoEffect ==
    [][\A k \in 1..Len(wire) :
          ChunkReceived(k) /\ OnlyPings(k) =>
              UNCHANGED <<stdout, rpc_url, session_id, rpc_ready>>]_vars

\* Both events of the stream of pings were handled.
PingsHandled == c_pc = "streaming" /\ received = StreamPings /\ buffer = <<>>

\* C10: the ready flag starts equal to the initial-readiness flag, never goes
\* from true to false, and goes from false to true only in a step in which
\* set_rpc_url runs.
ReadyIsMonotonic ==
    /\ rpc_ready = initial_ready
    /\ [][/\ rpc_ready => rpc_ready'
          /\ ~rpc_ready /\ rpc_ready' => n_set_rpc' > n_set_rpc]_vars

\* A run that started not ready became ready by one set_rpc_url.
BecameReady == ~initial_ready /\ rpc_ready /\ n_set_rpc = 1

\* The consumer takes the whole stream of an endpoint event with this data.
HandlesEndpoint(data) ==
    c_pc = "streaming" /\ received = <<>> /\ received' = EndpointStream(data)
\* The step calls set_rpc_url with the value v resolved against the SSE URL,
\* or, for None, does not call it.
EndpointOutcome(v) ==
    IF v = None THEN UNCHANGED <<rpc_url, rpc_ready, n_set_rpc>>
    ELSE /\ rpc_url' = urljoin(sse_url, v[1])
         /\ rpc_ready'
         /\ n_set_rpc' = n_set_rpc + 1

\* C11 as amended: the value of an endpoint event is the JSON string itself,
\* or for a JSON object the value of the first of the keys endpoint, url,
\* path whose value is not empty, or the trimmed text when the data is not
\* JSON; set_rpc_url is called with it, and it is not called when there is no
\* such value.  A JSON string and the object with that string as endpoint
\* give the same rpc_url.
DecodeFirstNonEmpty ==
    [][\A c \in EndpointCases : HandlesEndpoint(c.data) => EndpointOutcome(c.nonempty)]_vars

\* C11: as above, but a JSON object yields the value of the first of the keys
\* endpoint, url, path that is present, and the event is dropped when that
\* value is empty.
DecodeFirstPresent ==
    [][\A c \in EndpointCases : HandlesEndpoint(c.data) => EndpointOutcome(c.present)]_vars

\* An object with the url key before the endpoint key in its text set the URL
\* of its endpoint key.
PriorityCaseHandled ==
    /\ received = EndpointStream(<<"{", "\"", "u", "r", "l", "\"", ":", "\"", "/", "u", "\"", ",", "\"", "e", "n", "d", "p", "o", "i", "n", "t", "\"", ":", "\"", "/", "e", "\"", "}">>)
    /\ rpc_url = urljoin(sse_url, <<"/", "e">>)
    /\ n_set_rpc = 1

\* C12: when a streaming connection ends, by an error or by the end of the
\* response, the consumer sleeps in backoff before it connects again: no step
\* takes it from streaming straight to connecting.
EndPassesThroughBackoff ==
    [][c_pc = "streaming" => c_pc' # "connecting"]_vars

\* C13: an endpoint event whose data gives no usable value is dropped alone:
\* the consumer keeps streaming on the same connection, starts no backoff
\* sleep and leaves the shared state as it was.
ParseErrorDropsOneEvent ==
    [][\A c \in EndpointCases :
          c.nonempty = None /\ HandlesEndpoint(c.data)
          => /\ c_pc' = "streaming"
             /\ UNCHANGED <<sleep_for, fail_streak>>
             /\ UNCHANGED <<rpc_url, session_id, rpc_ready>>]_vars

\* C14: runner leaves its wait only when a task has finished, and in that
\* step sets the stop signal and requests the cancellation of every task
\* still running; it returns only when both tasks have finished, so that after
\* its return neither path is still running.
BothEndBeforeReturn ==
    /\ [](r_pc = "done" => c_pc \in Finished /\ f_pc \in Finished /\ stop_event)
    /\ [][r_pc = "waiting" /\ r_pc' # "waiting"
          => /\ c_pc \in Finished \/ f_pc \in Finished
             /\ stop_event'
             /\ c_pc \notin Finished => cancel_req'.c
             /\ f_pc \notin Finished => cancel_req'.f
             /\ r_pc' = "joining"]_vars
    /\ [][r_pc = "joining" /\ r_pc' # "joining"
          => c_pc \in Finished /\ f_pc \in Finished /\ r_pc' = "done"]_vars

\* runner returned after the forwarder ended at end of input and the consumer,
\* still running then, was cancelled.
ReturnedAfterCancel ==
    r_pc = "done" /\ f_pc = "done" /\ c_pc = "cancelled" /\ eof_read

\* C15: once the cancellation of the consumer is requested, its next step ends
\* it: it starts no sleep and no connection attempt, does not change the
\* delay, counts no failure, handles no further chunk, and once cancelled it
\* stays cancelled.
CancelEndsConsumer ==
    /\ [][cancel_req.c
          => /\ c_pc \in {"connecting", "streaming", "sleeping"}
             /\ c_pc' \in {c_pc, "cancelled"}
             /\ sleep_for' \in {sleep_for, 0}
             /\ UNCHANGED <<backoff_seconds, fail_streak, buffer, received, stdout>>
             /\ UNCHANGED <<rpc_url, rpc_ready, n_set_rpc>>]_vars
    /\ [][c_pc = "cancelled" => c_pc' = "cancelled" /\ UNCHANGED cons]_vars

\* The consumer was cancelled during the sleep after its first failure: the
\* delay was not doubled.
CancelledWhileSleeping ==
    c_pc = "cancelled" /\ fail_streak = 1 /\ backoff_seconds = BACKOFF_START

\* C16: the step that issues a POST sends it to the rpc_url of that moment
\* with the session id of that moment as its Mcp-Session-Id header, and the
\* step that issues a GET gives it the session id of that moment; without a
\* session id the header is absent.
RequestsUseCurrentState ==
    [][/\ n_posts' # n_posts
          => /\ f_pc' = "posting"
             /\ post_url' = rpc_url /\ rpc_url' = rpc_url
             /\ post_headers' = session_id /\ session_id' = session_id
       /\ c_pc # "connecting" /\ c_pc' = "connecting"
          => get_headers' = session_id /\ session_id' = session_id]_vars

\* A POST to the discovered URL and a GET attempt in flight together, both
\* carrying the session id a previous response assigned.
RequestsCarrySession ==
    /\ f_pc = "posting"
    /\ post_url = urljoin(sse_url, <<"/", "x">>)
    /\ post_headers = Some("s1")
    /\ c_pc = "connecting"
    /\ get_headers = Some("s1")

IsPrefix(a, b) == Len(a) <= Len(b) /\ SubSeq(b, 1, Len(a)) = a

\* C17: the POSTs issued are, in order, the JSON lines read, each at most
\* once and each before the next line is read; the step that ends a POST
\* attempt, with a response or a failure, issues no POST, leaves the stop
\* signal alone and takes the forwarder back to readline (or out of its loop
\* when the stop signal was set by someone else).
PostsFollowLines ==
    /\ [](IsPrefix(sent, lines_valid) /\ Len(lines_valid) <= Len(sent) + 1)
    /\ [](f_pc = "readline" => sent = lines_valid)
    /\ [][(f_pc = "posting" \/ f_pc = "body") /\ f_pc' # f_pc
          => /\ sent' = sent
             /\ stop_event' = stop_event
             /\ f_pc' \in {"body", "readline", "done", "cancelled"}
             /\ f_pc' = "done" => stop_event
             /\ f_pc' = "body" => f_pc = "posting"]_vars

\* The second line is being sent after the POST of the first got status 500,
\* and nothing asked the proxy to stop.
SentNextAfterError ==
    /\ f_pc = "posting" /\ ~stop_event
    /\ sent = << <<"1">>, <<"2">> >>
    /\ last_resp.status = 500

\* C18: no POST is issued in a state where the stop signal is set.
NoPostAfterStop ==
    [][n_posts' # n_posts => ~stop_event]_vars

\* C19: the two tasks write disjoint parts of ProxyState: a step that changes
\* session_id is a step of the forwarder and not of the consumer, a step that
\* changes rpc_url or rpc_ready is a step of the consumer and not of the
\* forwarder; so no consumer step changes session_id, no forwarder step
\* changes rpc_url or rpc_ready, and runner and the signal handler change
\* none of the three.
PathsWriteDisjointState ==
    [][/\ session_id' # session_id => Forwarder /\ ~Consumer
       /\ rpc_url' # rpc_url \/ rpc_ready' # rpc_ready => Consumer /\ ~Forwarder]_vars

\* The consumer has set the URL and the forwarder has set the session.
BothPathsWrote ==
    /\ n_set_rpc > 0 /\ rpc_url = urljoin(sse_url, <<"/", "x">>)
    /\ session_id = Some("s1")
    /\ ~initial_ready

\* The text after the last blank line: the part of a text that no blank line
\* has completed.
RECURSIVE UnfinishedText(_)
UnfinishedText(text) ==
    LET i == FindBlankLine(text, 1)
    IN  IF i = 0 THEN text ELSE UnfinishedText(Drop(text, i + 1))

\* The lines written since the last successful connect.
WrittenSinceConnect == SubSeq(stdout, Len(out_at_connect) + 1, Len(stdout))

\* The lines written are the first of the given lines, and all of them while
\* the connection streams.
WrittenAreTheBlocks(written, lines) ==
    /\ IsPrefix(written, lines)
    /\ c_pc = "streaming" => written = lines

\* text being what this connection received, decoded as one text: while
\* streaming the buffer is its unfinished end, and the lines written since
\* the connect are those of its complete blocks.
OwnTextOnly(text) ==
    /\ c_pc = "streaming" => buffer = UnfinishedText(text)
    /\ WrittenAreTheBlocks(WrittenSinceConnect, LinesOf(CompleteBlocks(text)))

\* C20: the buffer does not outlive a connection: a new connection starts
\* with an empty buffer, while streaming the buffer is the unfinished text
\* received on this connection alone, and the lines written since the
\* connection was opened are those of the blocks completed on it: all of
\* them while the connection streams, the first of them once a write to stdout
\* raised and ended it.
BufferEndsWithConnection ==
    /\ [][c_pc = "connecting" /\ c_pc' = "streaming" => buffer' = <<>>]_vars
    /\ [](/\ SubSeq(stdout, 1, Len(out_at_connect)) = out_at_connect
          /\ OwnTextOnly(ReplaceCRLF(Utf8DecodeIgnore(received))))

\* A first connection wrote the one line of StreamHead and ended or broke;
\* the second connection brought the end of a block and a message, and only
\* that message was written.
SecondConnectionWroteItsOwn ==
    /\ received = StreamTail
    /\ out_at_connect = << <<"2", "\n">> >>
    /\ stdout = << <<"2", "\n">>, <<"1", "\n">> >>
    /\ buffer = <<>>

====
